---------------------------- MODULE Spec2Model ----------------------------
(***************************************************************************)
(* Kargo x Amazon DSP integration: the creative transformation engine.     *)
(*                                                                         *)
(* The module models                                                       *)
(*   - ViewabilityConfig construction (app/models/creative.py),            *)
(*   - SnippetTransformer and CreativeValidator over tokenised markup      *)
(*     (app/services/creative_processor.py, app/utils/validation.py),      *)
(*   - CreativeProcessor.process_creative and the upload paths             *)
(*     (app/services/creative_processor.py, app/api/creative.py),          *)
(*   - the snippet provider client and its retry decorator                 *)
(*     (app/services/kargo_client.py, app/utils/retry.py).                 *)
(***************************************************************************)
EXTENDS Integers, Sequences, FiniteSets, TLC

VARIABLES
    vc,            \* ViewabilityConfig(...) call: its arguments and its outcome
    tx,            \* SnippetTransformer call: its argument and its result
    kargo_client,  \* kargo_client._kargo_client: the injected snippet client
    reqs,          \* the process_creative requests: position and locals of each
    store,         \* the rows of the table processed_creatives
    dsp,           \* the upload requests the Amazon DSP client has received
    api,           \* the call of a store or API operation whose result is being returned
    campaigns,     \* the rows of the table campaigns, by campaign_id
    associations,  \* the rows of the table campaign_creative_associations
    audit_logs,    \* the rows of the table audit_logs, in the order of their INSERT
    breaker,       \* a CircuitBreaker, its clock and the calls made through it
    background_tasks  \* the tasks added to BackgroundTasks that have not run yet

vars == <<vc, tx, kargo_client, reqs, store, dsp, api, campaigns, associations, audit_logs, breaker, background_tasks>>

\* the campaign tables, the circuit breaker and the background tasks
mvars == <<campaigns, associations, audit_logs, breaker, background_tasks>>

\* what a call of a pure function leaves alone, and what a step of
\* process_creative or of a batch upload leaves alone
pvars == <<kargo_client, reqs, store, dsp, api, mvars>>
cvars == <<vc, tx, api, mvars>>

None == "None"

(***************************************************************************)
(* Bounds of the model.                                                    *)
(***************************************************************************)
MaxVendors == 3      \* longest vendors list passed to ViewabilityConfig
MaxFrags == 4        \* most markup fragments in an argument of a transformer call
NumReq == 2          \* process_creative requests in flight together
MaxUploads == 2      \* upload requests sent to the Amazon DSP client
MaxIds == 2          \* distinct values uuid.uuid4() returns
MaxDuration == 61    \* longest duration, in seconds, of a video configuration
MaxClock == 2        \* distinct values datetime.utcnow() returns
MaxBatch == 4        \* most configurations in a batch of the bulk endpoint
MaxMillis == 3       \* milliseconds the clock of a process run advances
MaxCalls == 3        \* calls of one function in a run

(***************************************************************************)
(* app/models/creative.py: enums.                                          *)
(***************************************************************************)
PHASE_1 == "phase_1"
PHASE_2 == "phase_2"
ViewabilityPhase == {PHASE_1, PHASE_2}

DOUBLE_VERIFY == "double_verify"
IAS == "ias"
ViewabilityVendor == {DOUBLE_VERIFY, IAS}

\* the elements of a sequence
Range(s) == {s[i] : i \in 1..Len(s)}

\* all sequences over S of length at most n
SeqUpTo(S, n) == UNION {[1..k -> S] : k \in 0..n}

(***************************************************************************)
(* Markup.  A markup string is a sequence of tokens [k, n]: k is the text  *)
(* of the token (or "txt" for n characters of text that no pattern of the  *)
(* program inspects) and n its length in characters.  The only token that  *)
(* contains '>' is ">", the only one that contains '"' is the quote, the   *)
(* only ones that contain white space are " " (n blanks) and "\n".         *)
(***************************************************************************)
Tok(k, n) == [k |-> k, n |-> n]

T_IMG == Tok("<img", 4)
T_SCRIPT == Tok("<script", 7)
T_ENDSCRIPT == Tok("</script", 8)
T_GT == Tok(">", 1)
T_ADSAFE == Tok("adsafeprotected", 15)
T_PIXEL == Tok("pixel.", 6)
T_FW == Tok("fw.", 3)
T_COM == Tok(".com", 4)
T_QUOTE == Tok("\"", 1)
T_SP == Tok(" ", 1)
T_NL == Tok("\n", 1)
T_TXT == Tok("txt", 1)

IsGt(t) == t.k = ">"
IsQuote(t) == t.k = "\""
IsSpace(t) == t.k \in {" ", "\n"}

Min(S) == CHOOSE x \in S : \A y \in S : x <= y
Max(S) == CHOOSE x \in S : \A y \in S : x >= y

\* len(markup): the lengths of the tokens lo..hi, summed by halves
RECURSIVE SizeOf(_, _, _)
SizeOf(s, lo, hi) ==
    IF lo > hi THEN 0
    ELSE IF lo = hi THEN s[lo].n
    ELSE LET mid == (lo + hi) \div 2
         IN  SizeOf(s, lo, mid) + SizeOf(s, mid + 1, hi)

Size(s) == SizeOf(s, 1, Len(s))

\* the concatenation of a sequence of markups
RECURSIVE Concat(_)
Concat(ss) == IF ss = <<>> THEN <<>> ELSE Head(ss) \o Concat(Tail(ss))

(***************************************************************************)
(* Regular expressions of the tag catalogs.  Two shapes occur:             *)
(*   tag:  open [^>]* word [^>]* >            (close = FALSE)              *)
(*         open [^>]* word [^>]* > .*? </script>   (close = TRUE)          *)
(*   lit:  word                                (tail = FALSE)              *)
(*         word [^"\s>]*                       (tail = TRUE)               *)
(* word is a sequence of token texts that must occur contiguously.  All    *)
(* patterns are applied with re.IGNORECASE | re.DOTALL.                    *)
(***************************************************************************)
TagPattern(open, word, close) ==
    [type |-> "tag", open |-> open, word |-> word, close |-> close, tail |-> FALSE]
LitPattern(word, tail) ==
    [type |-> "lit", open |-> "", word |-> word, close |-> FALSE, tail |-> tail]

\* SnippetTransformer.IAS_PATTERNS
IAS_PATTERNS == <<
    TagPattern("<img", <<"adsafeprotected">>, FALSE),
    TagPattern("<script", <<"adsafeprotected">>, TRUE),
    TagPattern("<script", <<"fw.", "adsafeprotected">>, TRUE),
    LitPattern(<<"pixel.", "adsafeprotected", ".com">>, TRUE),
    LitPattern(<<"fw.", "adsafeprotected", ".com">>, TRUE) >>

HasWordAt(s, j, w) ==
    /\ j >= 1
    /\ j + Len(w) - 1 <= Len(s)
    /\ \A m \in 1..Len(w) : s[j + m - 1].k = w[m]

\* index of the first '>' after position i, 0 when there is none
FirstGt(s, i) ==
    LET J == {j \in (i + 1)..Len(s) : IsGt(s[j])}
    IN  IF J = {} THEN 0 ELSE Min(J)

\* index of the '>' of the first "</script>" that starts after position g
FirstEndScript(s, g) ==
    LET E == {m \in (g + 1)..(Len(s) - 1) : s[m].k = "</script" /\ IsGt(s[m + 1])}
    IN  IF E = {} THEN 0 ELSE Min(E) + 1

\* last index of the run [^"\s>]* that starts at position j (j - 1 when empty)
TailEnd(s, j) ==
    LET Stop == {m \in j..Len(s) : IsGt(s[m]) \/ IsQuote(s[m]) \/ IsSpace(s[m])}
    IN  IF Stop = {} THEN Len(s) ELSE Min(Stop) - 1

\* last index of the run \s* that starts at position m (m - 1 when empty)
RECURSIVE SpaceEnd(_, _)
SpaceEnd(s, m) ==
    IF m > Len(s) \/ ~ IsSpace(s[m]) THEN m - 1 ELSE SpaceEnd(s, m + 1)

\* re.sub(r'\n\s*\n', ...): a newline, white space, and the last newline
\* of that white space; index of that last newline, 0 when no match at i
BlankEnd(s, i) ==
    IF s[i].k # "\n" THEN 0
    ELSE LET r == SpaceEnd(s, i + 1)
             NL == {m \in (i + 1)..r : s[m].k = "\n"}
         IN  IF NL = {} THEN 0 ELSE Max(NL)

\* r'\n\s*\n'
BLANK_LINES == [type |-> "blank", open |-> "", word |-> <<>>, close |-> FALSE, tail |-> FALSE]

\* re.match of the pattern at position i: index of the last token of the
\* match, 0 when the pattern does not match there
MatchEnd(pat, s, i) ==
    IF pat.type = "tag"
    THEN IF i > Len(s) \/ s[i].k # pat.open THEN 0
         ELSE LET g == FirstGt(s, i)
              IN  IF g = 0 THEN 0
                  ELSE IF ~ \E j \in (i + 1)..(g - Len(pat.word)) : HasWordAt(s, j, pat.word)
                       THEN 0
                       ELSE IF pat.close THEN FirstEndScript(s, g) ELSE g
    ELSE IF pat.type = "blank" THEN BlankEnd(s, i)
    ELSE IF ~ HasWordAt(s, i, pat.word) THEN 0
         ELSE IF pat.tail THEN TailEnd(s, i + Len(pat.word))
              ELSE i + Len(pat.word) - 1

\* the text of the token a match of the pattern starts with
FirstKey(pat) ==
    IF pat.type = "tag" THEN pat.open
    ELSE IF pat.type = "blank" THEN "\n"
    ELSE pat.word[1]

\* the first position from pos on where the pattern matches, 0 when none
NextMatch(pat, s, pos) ==
    LET key == FirstKey(pat)
        M == {i \in {j \in pos..Len(s) : s[j].k = key} : MatchEnd(pat, s, i) # 0}
    IN  IF M = {} THEN 0 ELSE Min(M)

\* the spans of the non-overlapping matches, scanning from the left
\* (re.findall and re.sub visit the same matches)
RECURSIVE Scan(_, _, _)
Scan(pat, s, pos) ==
    LET i == NextMatch(pat, s, pos)
    IN  IF i = 0 THEN <<>>
        ELSE LET e == MatchEnd(pat, s, i)
             IN  <<[from |-> i, to |-> e]>> \o Scan(pat, s, e + 1)

\* the matched texts of the spans
Matched(s, spans) == [m \in 1..Len(spans) |-> SubSeq(s, spans[m].from, spans[m].to)]

\* re.findall(pattern, s)
FindAll(pat, s) == Matched(s, Scan(pat, s, 1))

\* s from pos on, with every span replaced by repl
RECURSIVE Splice(_, _, _, _)
Splice(s, spans, repl, pos) ==
    IF spans = <<>> THEN SubSeq(s, pos, Len(s))
    ELSE SubSeq(s, pos, Head(spans).from - 1) \o repl
         \o Splice(s, Tail(spans), repl, Head(spans).to + 1)

\* re.sub(r'\n\s*\n', '\n', s)
CollapseBlankLines(s) == Splice(s, Scan(BLANK_LINES, s, 1), <<T_NL>>, 1)

\* str.strip(): from the first to the last token that is not white space
Strip(s) ==
    LET NonSp == {m \in 1..Len(s) : ~ IsSpace(s[m])}
    IN  IF NonSp = {} THEN <<>>
        ELSE SubSeq(s, CHOOSE m \in NonSp : \A j \in 1..(m - 1) : IsSpace(s[j]),
                       CHOOSE m \in NonSp : \A j \in (m + 1)..Len(s) : IsSpace(s[j]))

(***************************************************************************)
(* SnippetTransformer.remove_ias_tags: for each pattern in catalog order,  *)
(* record its matches in the current code, then delete them; finally       *)
(* collapse blank lines and strip.                                         *)
(***************************************************************************)
RECURSIVE RemoveLoop(_, _, _, _)
RemoveLoop(patterns, code, removed, p) ==
    IF p > Len(patterns) THEN [code |-> code, removed |-> removed]
    ELSE LET spans == Scan(patterns[p], code, 1)
         IN  RemoveLoop(patterns, Splice(code, spans, <<>>, 1),
                        removed \o Matched(code, spans), p + 1)

remove_ias_tags(snippet_code) ==
    LET r == RemoveLoop(IAS_PATTERNS, snippet_code, <<>>, 1)
    IN  [cleaned_code |-> Strip(CollapseBlankLines(r.code)),
         removed_tags |-> r.removed]

(***************************************************************************)
(* ViewabilityConfig.validate_vendors_for_phase: the pydantic validator of *)
(* the field `vendors`.  `phase` is the already validated value of the     *)
(* field phase, or None when that field failed its own validation          *)
(* (values.get('phase')).  TRUE = the validator returns v, FALSE = it      *)
(* raises ValueError.                                                      *)
(***************************************************************************)
validate_vendors_for_phase_gt(phase, v) ==
    IF phase = PHASE_1 THEN IAS \notin Range(v)
    ELSE IF phase = PHASE_2 THEN Len(v) >= 1
    ELSE TRUE

validate_vendors_for_phase(phase, v) ==
    IF phase = PHASE_1 THEN IAS \notin Range(v)
    ELSE IF phase = PHASE_2 THEN ~(Len(v) < 2)
    ELSE TRUE

(***************************************************************************)
(* ViewabilityConfig(phase=..., vendors=..., method=...): pydantic builds   *)
(* the object only when every field validates.  phase must be a member of  *)
(* the enum, method is a required field.                                   *)
(***************************************************************************)
PhaseInputs == ViewabilityPhase \cup {"phase_3"}
MethodInputs == {None, "platform_native"}
VendorInputs == SeqUpTo(ViewabilityVendor, MaxVendors)

ViewabilityConfigErrors(phase, vendors, method) ==
    LET phaseOk == phase \in ViewabilityPhase
        validated == IF phaseOk THEN phase ELSE None
    IN  (IF phaseOk THEN {} ELSE {"phase"})
        \cup (IF validate_vendors_for_phase(validated, vendors) THEN {} ELSE {"vendors"})
        \cup (IF method # None THEN {} ELSE {"method"})

VCIdle == [state |-> "idle", phase |-> None, vendors |-> <<>>, method |-> None,
           errors |-> {}]

\* a caller invokes ViewabilityConfig(phase, vendors, method)
VCCall ==
    /\ vc.state = "idle"
    /\ \E phase \in PhaseInputs, vendors \in VendorInputs, method \in MethodInputs :
          vc' = [vc EXCEPT !.state = "called", !.phase = phase,
                           !.vendors = vendors, !.method = method]
    /\ UNCHANGED <<tx, pvars>>

\* the constructor runs the field validators and returns or raises
VCConstruct ==
    /\ vc.state = "called"
    /\ LET errs == ViewabilityConfigErrors(vc.phase, vc.vendors, vc.method)
       IN  vc' = [vc EXCEPT !.state = IF errs = {} THEN "constructed" ELSE "raised",
                            !.errors = errs]
    /\ UNCHANGED <<tx, pvars>>

TxIdle == [state |-> "idle", fn |-> None, input |-> <<>>, result |-> None]

\* no call of a store or API operation is returning
ApiIdle == [op |-> None, arg |-> <<>>, result |-> [raises |-> None, value |-> <<>>]]

\* CircuitBreaker.__init__: closed, no failure counted; `time` is the reading
\* of time.time(), `calls` the calls of the wrapper so far, `running` those
\* that are awaiting the wrapped function and `last` what the wrapper did last
CircuitBreaker(failure_threshold, recovery_timeout) ==
    [failure_threshold |-> failure_threshold, recovery_timeout |-> recovery_timeout,
     failure_count |-> 0, last_failure_time |-> <<>>, state |-> "closed",
     time |-> 0, calls |-> 0, running |-> 0, last |-> "constructed"]

\* no campaign, no audit entry, a breaker with the default arguments, no task
ServicesIdle ==
    /\ campaigns = <<>>
    /\ associations = {}
    /\ audit_logs = <<>>
    /\ breaker = CircuitBreaker(5, 60)
    /\ background_tasks = <<>>

\* no pipeline: no request, an empty table, nothing uploaded
PipelineIdle ==
    /\ kargo_client = "mock"
    /\ reqs = <<>>
    /\ store = {}
    /\ dsp = <<>>
    /\ api = ApiIdle
    /\ ServicesIdle

InitVC ==
    /\ vc = VCIdle
    /\ tx = TxIdle
    /\ PipelineIdle

NextVC ==
    \/ VCCall
    \/ VCConstruct

SpecVC == InitVC /\ [][NextVC]_vars

(***************************************************************************)
(* Calls of the pure SnippetTransformer functions on arbitrary markup: the *)
(* argument is any concatenation of at most MaxFrags fragments.            *)
(***************************************************************************)
IASFragments == {
    <<T_IMG>>, <<T_SCRIPT>>, <<T_ENDSCRIPT, T_GT>>, <<T_GT>>,
    <<T_PIXEL, T_ADSAFE, T_COM>>, <<T_FW, T_ADSAFE, T_COM>>, <<T_ADSAFE>>,
    <<T_TXT>>, <<T_SP>>, <<T_NL>>, <<T_QUOTE>> }

IASMarkupInputs == {Concat(fs) : fs \in SeqUpTo(IASFragments, MaxFrags)}

\* a caller invokes SnippetTransformer.remove_ias_tags(markup)
TxCallRemoveIasTags ==
    /\ tx.state = "idle"
    /\ \E markup \in IASMarkupInputs :
          tx' = [tx EXCEPT !.state = "called", !.fn = "remove_ias_tags",
                           !.input = markup]
    /\ UNCHANGED <<vc, pvars>>

TxReturnRemoveIasTags ==
    /\ tx.state = "called"
    /\ tx.fn = "remove_ias_tags"
    /\ tx' = [tx EXCEPT !.state = "returned", !.result = remove_ias_tags(tx.input)]
    /\ UNCHANGED <<vc, pvars>>

InitTx ==
    /\ vc = VCIdle
    /\ tx = TxIdle
    /\ PipelineIdle

NextTx ==
    \/ TxCallRemoveIasTags
    \/ TxReturnRemoveIasTags

SpecTx == InitTx /\ [][NextTx]_vars

(***************************************************************************)
(* Strings.  Names and identifiers are TLA+ strings; a string on which the *)
(* program computes (split, int, lower, in) is a sequence of one-character *)
(* strings.  Text(x) is the markup of str(x) for a value whose text holds  *)
(* no catalogued word, '>', '"' or white space.                            *)
(***************************************************************************)
Txt(n) == Tok("txt", n)
Sp(n) == Tok(" ", n)
W(k) == Tok(k, Len(k))

Text(x) == IF Len(x) = 0 THEN <<>> ELSE <<Txt(Len(x))>>

\* index of the first occurrence of the character c in s, 0 when absent
Find(s, c) ==
    LET I == {i \in 1..Len(s) : s[i] = c}
    IN  IF I = {} THEN 0 ELSE Min(I)

\* str.split(sep) for a one-character separator
RECURSIVE Split(_, _)
Split(s, sep) ==
    LET i == Find(s, sep)
    IN  IF i = 0 THEN <<s>>
        ELSE <<SubSeq(s, 1, i - 1)>> \o Split(SubSeq(s, i + 1, Len(s)), sep)

\* str.split(sep, 1)
SplitOnce(s, sep) ==
    LET i == Find(s, sep)
    IN  IF i = 0 THEN <<s>>
        ELSE <<SubSeq(s, 1, i - 1), SubSeq(s, i + 1, Len(s))>>

\* sub in s, for sequences of characters
Contains(s, sub) ==
    \E i \in 0..(Len(s) - Len(sub)) : \A j \in 1..Len(sub) : s[i + j] = sub[j]

Digits == <<"0", "1", "2", "3", "4", "5", "6", "7", "8", "9">>
IsDigit(c) == \E d \in 1..Len(Digits) : Digits[d] = c
DigitValue(c) == (CHOOSE d \in 1..Len(Digits) : Digits[d] = c) - 1

\* int(s) succeeds: an optional sign and at least one digit
IsInt(s) ==
    LET body == IF Len(s) > 0 /\ s[1] \in {"-", "+"} THEN Tail(s) ELSE s
    IN  Len(body) > 0 /\ \A i \in 1..Len(body) : IsDigit(body[i])

RECURSIVE ParseDigits(_, _)
ParseDigits(s, acc) ==
    IF s = <<>> THEN acc ELSE ParseDigits(Tail(s), 10 * acc + DigitValue(Head(s)))

\* int(s), for s with IsInt(s)
Int_(s) ==
    IF s[1] = "-" THEN 0 - ParseDigits(Tail(s), 0)
    ELSE IF s[1] = "+" THEN ParseDigits(Tail(s), 0)
    ELSE ParseDigits(s, 0)

\* str(n) for an integer n
RECURSIVE Str(_)
Str(n) ==
    IF n < 0 THEN <<"-">> \o Str(0 - n)
    ELSE IF n < 10 THEN <<Digits[n + 1]>>
    ELSE Str(n \div 10) \o <<Digits[(n % 10) + 1]>>

\* f"{d:02d}": the decimal text of d, zero-padded after the sign to two
\* characters
format_02d(d) ==
    IF Len(Str(d)) >= 2 THEN Str(d) ELSE <<"0">> \o Str(d)

(***************************************************************************)
(* URLs are sequences of characters.  urlparse keeps, of its rules, the    *)
(* ones the URLs of this model exercise: the scheme is what precedes the   *)
(* first ':' when no '/' comes before it, the netloc is what follows "//"  *)
(* up to the next '/', the path is the rest (no query, no fragment).       *)
(***************************************************************************)
StartsWith(s, p) == Len(s) >= Len(p) /\ SubSeq(s, 1, Len(p)) = p

urlparse(url) ==
    LET c == Find(url, ":")
        sl == Find(url, "/")
        hasScheme == c > 1 /\ (sl = 0 \/ c < sl)
        rest == IF hasScheme THEN SubSeq(url, c + 1, Len(url)) ELSE url
        hasNetloc == StartsWith(rest, <<"/", "/">>)
        after == IF hasNetloc THEN SubSeq(rest, 3, Len(rest)) ELSE rest
        e == Find(after, "/")
        cut == IF ~ hasNetloc THEN 0 ELSE IF e = 0 THEN Len(after) ELSE e - 1
    IN  [scheme |-> IF hasScheme THEN SubSeq(url, 1, c - 1) ELSE <<>>,
         netloc |-> SubSeq(after, 1, cut),
         path |-> SubSeq(after, cut + 1, Len(after))]

\* s.strip('/')
StripSlashes(s) ==
    LET Keep == {i \in 1..Len(s) : s[i] # "/"}
    IN  IF Keep = {} THEN <<>> ELSE SubSeq(s, Min(Keep), Max(Keep))

\* the text of a URL inside markup: of the catalogued words a URL of this
\* model can only hold ".com"
RECURSIVE UrlTextFrom(_, _)
UrlTextFrom(s, run) ==
    LET pending == IF run = 0 THEN <<>> ELSE <<Txt(run)>>
    IN  IF s = <<>> THEN pending
        ELSE IF StartsWith(s, <<".", "c", "o", "m">>)
             THEN pending \o <<W(".com")>> \o UrlTextFrom(SubSeq(s, 5, Len(s)), 0)
             ELSE UrlTextFrom(Tail(s), run + 1)

UrlText(url) == UrlTextFrom(url, 0)

(***************************************************************************)
(* SnippetTransformer: macro and cache-buster injection.  Every macro is   *)
(* one token, so str.replace(old, new) rewrites the tokens whose text is   *)
(* old.                                                                    *)
(***************************************************************************)
Replace(s, old, new) == [i \in 1..Len(s) |-> IF s[i].k = old THEN new ELSE s[i]]

\* SnippetTransformer.AMAZON_MACROS, in dict order
AMAZON_MACROS == <<
    <<"${CLICK_URL}", "${AMAZON_CLICK_URL}">>,
    <<"${IMPRESSION_URL}", "${AMAZON_IMPRESSION_URL}">>,
    <<"${CAMPAIGN_ID}", "${AMAZON_CAMPAIGN_ID}">>,
    <<"${CREATIVE_ID}", "${AMAZON_CREATIVE_ID}">>,
    <<"${PLACEMENT_ID}", "${AMAZON_PLACEMENT_ID}">>,
    <<"${SITE_ID}", "${AMAZON_SITE_ID}">>,
    <<"${CACHEBUSTER}", "${AMAZON_CACHEBUSTER}">>,
    <<"${GDPR}", "${AMAZON_GDPR}">>,
    <<"${GDPR_CONSENT}", "${AMAZON_GDPR_CONSENT}">> >>

RECURSIVE InjectLoop(_, _)
InjectLoop(code, m) ==
    IF m > Len(AMAZON_MACROS) THEN code
    ELSE InjectLoop(Replace(code, AMAZON_MACROS[m][1], W(AMAZON_MACROS[m][2])), m + 1)

inject_amazon_macros(snippet_code) == InjectLoop(snippet_code, 1)

\* str(int(time.time() * 1000)): milliseconds since the epoch, thirteen
\* digits for every date between 2001 and 2286
generate_cache_buster == Txt(13)

inject_cache_buster(snippet_code, cache_buster) ==
    Replace(Replace(snippet_code, "${CACHEBUSTER}", cache_buster),
            "${AMAZON_CACHEBUSTER}", cache_buster)

(***************************************************************************)
(* app/models/creative.py: CreativeFormat and DeviceType.  The members are *)
(* their values, as sequences of characters.                               *)
(***************************************************************************)
RUNWAY == <<"r", "u", "n", "w", "a", "y">>
INSTREAM_VIDEO ==
    <<"i", "n", "s", "t", "r", "e", "a", "m", "_", "v", "i", "d", "e", "o">>
ENHANCED_PREROLL ==
    <<"e", "n", "h", "a", "n", "c", "e", "d", "_", "p", "r", "e", "r", "o", "l", "l">>
CreativeFormat == {RUNWAY, INSTREAM_VIDEO, ENHANCED_PREROLL}

MOBILE == "mobile"

(***************************************************************************)
(* app/utils/validation.py: CreativeValidator.                             *)
(***************************************************************************)
\* CreativeValidator.IAS_TAG_PATTERNS
IAS_TAG_PATTERNS == <<
    TagPattern("<img", <<"adsafeprotected">>, FALSE),
    TagPattern("<script", <<"ias">>, TRUE),
    LitPattern(<<"fw.", "adsafeprotected", ".com">>, FALSE),
    LitPattern(<<"pixel.", "adsafeprotected", ".com">>, FALSE),
    LitPattern(<<"ias", ".tracking">>, FALSE) >>

\* CreativeValidator.DV_TAG_PATTERNS
DV_TAG_PATTERNS == <<
    TagPattern("<img", <<"doubleverify">>, FALSE),
    TagPattern("<script", <<"dvtp_src">>, TRUE),
    TagPattern("<script", <<"doubleverify">>, TRUE),
    LitPattern(<<"tps.", "doubleverify", ".com">>, FALSE) >>

\* the matches of every pattern of a catalog, in catalog order
RECURSIVE DetectLoop(_, _, _)
DetectLoop(patterns, code, p) ==
    IF p > Len(patterns) THEN <<>>
    ELSE FindAll(patterns[p], code) \o DetectLoop(patterns, code, p + 1)

detect_ias_tags(creative_code) == DetectLoop(IAS_TAG_PATTERNS, creative_code, 1)
detect_dv_tags(creative_code) == DetectLoop(DV_TAG_PATTERNS, creative_code, 1)

\* 'snippet.kargo.com'
SNIPPET_HOST ==
    <<"s", "n", "i", "p", "p", "e", "t", ".", "k", "a", "r", "g", "o", ".", "c", "o", "m">>

\* validate_snippet_url without the test of the host
validate_snippet_url_any_host(url) ==
    LET parsed == urlparse(url)
    IN  /\ parsed.scheme # <<>>
        /\ parsed.netloc # <<>>

validate_snippet_url(url) ==
    LET parsed == urlparse(url)
    IN  /\ parsed.scheme # <<>>
        /\ parsed.netloc # <<>>
        /\ Contains(parsed.netloc, SNIPPET_HOST)

\* validate_dimensions: (width, height), or ValidationError
validate_dimensions(dimensions) ==
    LET parts == SplitOnce(dimensions, "x")
        parsed == Len(parts) = 2 /\ IsInt(parts[1]) /\ IsInt(parts[2])
        width == IF parsed THEN Int_(parts[1]) ELSE 0
        height == IF parsed THEN Int_(parts[2]) ELSE 0
    IN  [raises |-> ~ (parsed /\ width > 0 /\ height > 0),
         width |-> width, height |-> height]

valid_runway_sizes == {<<320, 50>>, <<728, 90>>, <<300, 250>>, <<160, 600>>, <<970, 250>>}
valid_video_companion_sizes == {<<300, 50>>, <<320, 50>>, <<300, 250>>, <<728, 90>>}

\* validate_creative_format_dimensions: a boolean, or ValidationError
validate_creative_format_dimensions(format, dimensions) ==
    LET d == validate_dimensions(dimensions)
        size == <<d.width, d.height>>
    IN  [raises |-> d.raises,
         value |-> IF format = RUNWAY THEN size \in valid_runway_sizes
                   ELSE IF format \in {INSTREAM_VIDEO, ENHANCED_PREROLL}
                        THEN size \in valid_video_companion_sizes
                        ELSE TRUE]

\* a warning or error message; n is the number the message quotes (0: none)
Warn(text, n) == [text |-> text, n |-> n]

\* validate_phase_configuration with the Phase 2 limit on IAS tags at 2, not above 2
validate_phase_configuration_two_is_excessive(phase, vendors, creative_code) ==
    LET ias_tags == detect_ias_tags(creative_code)
        dv_tags == detect_dv_tags(creative_code)
    IN  IF phase = PHASE_1
        THEN (IF IAS \in Range(vendors)
              THEN <<Warn("Phase 1 should not include IAS vendor", 0)>> ELSE <<>>)
             \o (IF ias_tags # <<>>
                 THEN <<Warn("Phase 1 creative contains IAS tags that should be removed",
                             Len(ias_tags))>>
                 ELSE <<>>)
             \o (IF DOUBLE_VERIFY \in Range(vendors) /\ dv_tags = <<>>
                 THEN <<Warn("Phase 1 configured for DV but no DV tags found in creative", 0)>>
                 ELSE <<>>)
        ELSE IF phase = PHASE_2
        THEN (IF IAS \notin Range(vendors)
              THEN <<Warn("Phase 2 should include IAS vendor for S2S integration", 0)>>
              ELSE <<>>)
             \o (IF DOUBLE_VERIFY \notin Range(vendors)
                 THEN <<Warn("Phase 2 should include DoubleVerify vendor", 0)>> ELSE <<>>)
             \o (IF Len(ias_tags) >= 2
                 THEN <<Warn("Phase 2 creative has excessive IAS tags", Len(ias_tags))>>
                 ELSE <<>>)
        ELSE <<>>

validate_phase_configuration(phase, vendors, creative_code) ==
    LET ias_tags == detect_ias_tags(creative_code)
        dv_tags == detect_dv_tags(creative_code)
    IN  IF phase = PHASE_1
        THEN (IF IAS \in Range(vendors)
              THEN <<Warn("Phase 1 should not include IAS vendor", 0)>> ELSE <<>>)
             \o (IF ias_tags # <<>>
                 THEN <<Warn("Phase 1 creative contains IAS tags that should be removed",
                             Len(ias_tags))>>
                 ELSE <<>>)
             \o (IF DOUBLE_VERIFY \in Range(vendors) /\ dv_tags = <<>>
                 THEN <<Warn("Phase 1 configured for DV but no DV tags found in creative", 0)>>
                 ELSE <<>>)
        ELSE IF phase = PHASE_2
        THEN (IF IAS \notin Range(vendors)
              THEN <<Warn("Phase 2 should include IAS vendor for S2S integration", 0)>>
              ELSE <<>>)
             \o (IF DOUBLE_VERIFY \notin Range(vendors)
                 THEN <<Warn("Phase 2 should include DoubleVerify vendor", 0)>> ELSE <<>>)
             \o (IF Len(ias_tags) > 2
                 THEN <<Warn("Phase 2 creative has excessive IAS tags", Len(ias_tags))>>
                 ELSE <<>>)
        ELSE <<>>

HasWord(s, w) == \E j \in 1..Len(s) : HasWordAt(s, j, w)

\* validate_vast_structure looking for '<Ad>' only, not for '<Ad '
validate_vast_structure_bare_ad(vast_code) ==
    (IF ~ HasWord(vast_code, <<"<VAST">>)
     THEN <<Warn("Missing VAST root element", 0)>> ELSE <<>>)
    \o (IF ~ HasWord(vast_code, <<"<Ad", ">">>)
        THEN <<Warn("Missing Ad element", 0)>> ELSE <<>>)
    \o (IF ~ HasWord(vast_code, <<"<Creative", ">">>)
           /\ ~ HasWord(vast_code, <<"<Creative", " ">>)
        THEN <<Warn("Missing Creative element", 0)>> ELSE <<>>)
    \o (IF ~ HasWord(vast_code, <<"<TrackingEvents", ">">>)
        THEN <<Warn("Missing TrackingEvents element", 0)>> ELSE <<>>)
    \o (IF ~ HasWord(vast_code, <<"event=", "\"", "start", "\"">>)
        THEN <<Warn("Missing required tracking event: start", 0)>> ELSE <<>>)
    \o (IF ~ HasWord(vast_code, <<"event=", "\"", "complete", "\"">>)
        THEN <<Warn("Missing required tracking event: complete", 0)>> ELSE <<>>)

validate_vast_structure(vast_code) ==
    (IF ~ HasWord(vast_code, <<"<VAST">>)
     THEN <<Warn("Missing VAST root element", 0)>> ELSE <<>>)
    \o (IF ~ HasWord(vast_code, <<"<Ad", ">">>) /\ ~ HasWord(vast_code, <<"<Ad", " ">>)
        THEN <<Warn("Missing Ad element", 0)>> ELSE <<>>)
    \o (IF ~ HasWord(vast_code, <<"<Creative", ">">>)
           /\ ~ HasWord(vast_code, <<"<Creative", " ">>)
        THEN <<Warn("Missing Creative element", 0)>> ELSE <<>>)
    \o (IF ~ HasWord(vast_code, <<"<TrackingEvents", ">">>)
        THEN <<Warn("Missing TrackingEvents element", 0)>> ELSE <<>>)
    \o (IF ~ HasWord(vast_code, <<"event=", "\"", "start", "\"">>)
        THEN <<Warn("Missing required tracking event: start", 0)>> ELSE <<>>)
    \o (IF ~ HasWord(vast_code, <<"event=", "\"", "complete", "\"">>)
        THEN <<Warn("Missing required tracking event: complete", 0)>> ELSE <<>>)

(***************************************************************************)
(* SnippetTransformer: the four wrappers.  Each is its template, token by  *)
(* token, with the interpolated values in place; str(DeviceType) and       *)
(* str(None) are rendered as format() renders them.  The VAST wrappers     *)
(* ignore snippet_code, and evaluate f"{config.duration:02d}", which       *)
(* raises TypeError when the duration is None.  An Optional[int] is the    *)
(* empty sequence (None) or a sequence of one integer.                     *)
(***************************************************************************)
\* SnippetTransformer.wrap_display_html5_phase1: Wrap HTML5 display creative for Phase 1 (DV-only).
wrap_display_html5_phase1(snippet_code, config) ==
    LET wrapped_code ==
            << T_NL, Sp(8), Txt(4), Sp(1), Txt(6), T_QUOTE, Txt(26), T_QUOTE,
               Sp(1), Txt(11), T_QUOTE, Txt(7), T_QUOTE, T_GT, T_NL, Sp(12),
               W("<script"), Sp(1), Txt(5), T_QUOTE, Txt(16), T_QUOTE, Sp(1),
               Txt(6), T_QUOTE, Txt(13), T_QUOTE, T_GT, T_NL, Sp(12), Txt(1),
               T_NL, Sp(16), T_QUOTE, Txt(6), T_QUOTE, Txt(1), Sp(1), T_QUOTE,
               Txt(13), T_QUOTE, Txt(1), T_NL, Sp(16), T_QUOTE, Txt(13),
               T_QUOTE, Txt(1), Sp(1), T_QUOTE >>
            \o Text(config.name)
            \o << T_QUOTE, Txt(1), T_NL, Sp(16), T_QUOTE, Txt(10), T_QUOTE,
               Txt(1), Sp(1), T_QUOTE >>
            \o Text(config.dimensions)
            \o << T_QUOTE, Txt(1), T_NL, Sp(16), T_QUOTE, Txt(11), T_QUOTE,
               Txt(1), Sp(1), T_QUOTE >>
            \o Text(config.device_type)
            \o << T_QUOTE, Txt(1), T_NL, Sp(16), T_QUOTE, Txt(18), T_QUOTE,
               Txt(1), Sp(1), T_QUOTE, Txt(13), T_QUOTE, Txt(1), T_NL, Sp(16),
               T_QUOTE, Txt(18), T_QUOTE, Txt(1), Sp(1), T_QUOTE, Txt(15),
               T_QUOTE, Txt(1), T_NL, Sp(16), T_QUOTE, Txt(5), T_QUOTE, Txt(1),
               Sp(1), T_QUOTE, Txt(7), T_QUOTE, T_NL, Sp(12), Txt(1), T_NL,
               Sp(12), W("</script"), T_GT, T_NL, Sp(12), T_NL, Sp(12), Txt(4),
               Sp(1), Txt(8), Sp(1), Txt(5), Sp(1), Txt(8), Sp(1), Txt(1),
               W("ias"), Sp(1), Txt(8), Sp(1), Txt(2), Sp(1), Txt(10), Sp(1),
               Txt(2), T_GT, T_NL, Sp(12) >>
            \o snippet_code
            \o << T_NL, Sp(12), T_NL, Sp(12), W("<script"), T_GT, T_NL, Sp(16),
               Txt(2), Sp(1), Txt(6), Sp(1), Txt(3), Sp(1), Txt(11), T_NL,
               Sp(16), Txt(22), Sp(1), Txt(1), Sp(1), Txt(1), T_NL, Sp(20),
               Txt(9), Sp(1), Txt(1), W("${AMAZON_CLICK_URL}"), Txt(2), T_NL,
               Sp(20), Txt(14), Sp(1), Txt(1), W("${AMAZON_IMPRESSION_URL}"),
               Txt(2), T_NL, Sp(20), Txt(11), Sp(1), Txt(1),
               W("${AMAZON_CAMPAIGN_ID}"), Txt(2), T_NL, Sp(20), Txt(11),
               Sp(1), Txt(1), W("${AMAZON_CREATIVE_ID}"), Txt(2), T_NL, Sp(20),
               Txt(18), Sp(1), Txt(17), T_NL, Sp(16), Txt(2), T_NL, Sp(16),
               T_NL, Sp(16), Txt(2), Sp(1), Txt(2), Sp(1), Txt(11), Sp(1),
               Txt(7), Sp(1), Txt(2), Sp(1), Txt(6), Sp(1), Txt(3), Sp(1),
               Txt(8), T_NL, Sp(16), Txt(2), Sp(1), Txt(2), Sp(1), Txt(10),
               Sp(1), Txt(11), Sp(1), Txt(6), Sp(1), Txt(6), T_NL, Sp(16),
               Txt(19), Sp(1), Txt(3), Sp(1), Txt(5), Sp(1), Txt(1), Sp(1),
               Txt(8), Sp(1), Txt(9), Sp(1), Txt(24), T_NL, Sp(12),
               W("</script"), T_GT, T_NL, Sp(8), Txt(5), T_GT, T_NL, Sp(8) >>
    IN  Strip(wrapped_code)

\* SnippetTransformer.wrap_display_html5_phase2: Wrap HTML5 display creative for Phase 2 (IAS S2S + DV).
wrap_display_html5_phase2(snippet_code, config) ==
    LET wrapped_code ==
            << T_NL, Sp(8), Txt(4), Sp(1), Txt(6), T_QUOTE, Txt(26), T_QUOTE,
               Sp(1), Txt(11), T_QUOTE, Txt(7), T_QUOTE, T_GT, T_NL, Sp(12),
               W("<script"), Sp(1), Txt(5), T_QUOTE, Txt(16), T_QUOTE, Sp(1),
               Txt(6), T_QUOTE, Txt(13), T_QUOTE, T_GT, T_NL, Sp(12), Txt(1),
               T_NL, Sp(16), T_QUOTE, Txt(6), T_QUOTE, Txt(1), Sp(1), T_QUOTE,
               Txt(13), T_QUOTE, Txt(1), T_NL, Sp(16), T_QUOTE, Txt(13),
               T_QUOTE, Txt(1), Sp(1), T_QUOTE >>
            \o Text(config.name)
            \o << T_QUOTE, Txt(1), T_NL, Sp(16), T_QUOTE, Txt(10), T_QUOTE,
               Txt(1), Sp(1), T_QUOTE >>
            \o Text(config.dimensions)
            \o << T_QUOTE, Txt(1), T_NL, Sp(16), T_QUOTE, Txt(11), T_QUOTE,
               Txt(1), Sp(1), T_QUOTE >>
            \o Text(config.device_type)
            \o << T_QUOTE, Txt(1), T_NL, Sp(16), T_QUOTE, Txt(19), T_QUOTE,
               Txt(1), Sp(1), Txt(1), T_QUOTE, W("ias"), T_QUOTE, Txt(1),
               Sp(1), T_QUOTE, Txt(13), T_QUOTE, Txt(2), T_NL, Sp(16), T_QUOTE,
               Txt(18), T_QUOTE, Txt(1), Sp(1), T_QUOTE, Txt(15), T_QUOTE,
               Txt(1), T_NL, Sp(16), T_QUOTE, Txt(5), T_QUOTE, Txt(1), Sp(1),
               T_QUOTE, Txt(7), T_QUOTE, Txt(1), T_NL, Sp(16), T_QUOTE,
               W("ias"), Txt(12), T_QUOTE, Txt(1), Sp(1), Txt(5), T_NL, Sp(16),
               T_QUOTE, Txt(11), T_QUOTE, Txt(1), Sp(1), T_QUOTE >>
            \o Text(config.viewability_config.dsp_seat_id)
            \o << T_QUOTE, Txt(1), T_NL, Sp(16), T_QUOTE, Txt(6), T_QUOTE, Txt(1),
               Sp(1), T_QUOTE >>
            \o Text(config.viewability_config.pub_id)
            \o << T_QUOTE, T_NL, Sp(12), Txt(1), T_NL, Sp(12), W("</script"),
               T_GT, T_NL, Sp(12), T_NL, Sp(12), Txt(4), Sp(1), W("ias"),
               Sp(1), Txt(3), Sp(1), Txt(13), Sp(1), Txt(3), Sp(1), Txt(11),
               Sp(1), Txt(4), Sp(1), Txt(7), Sp(1), Txt(2), T_GT, T_NL, Sp(12),
               W("<script"), Sp(1), Txt(5), T_QUOTE, Txt(16), T_QUOTE, Sp(1),
               Txt(6), T_QUOTE, W("ias"), Txt(11), T_QUOTE, T_GT, T_NL, Sp(12),
               Txt(1), T_NL, Sp(16), T_QUOTE, Txt(7), T_QUOTE, Txt(1), Sp(1),
               T_QUOTE >>
            \o Text(config.viewability_config.dsp_seat_id)
            \o << T_QUOTE, Txt(1), T_NL, Sp(16), T_QUOTE, Txt(12), T_QUOTE,
               Txt(1), Sp(1), T_QUOTE >>
            \o Text(config.viewability_config.pub_id)
            \o << T_QUOTE, Txt(1), T_NL, Sp(16), T_QUOTE, Txt(11), T_QUOTE,
               Txt(1), Sp(1), T_QUOTE, W("${AMAZON_CAMPAIGN_ID}"), T_QUOTE,
               Txt(1), T_NL, Sp(16), T_QUOTE, Txt(11), T_QUOTE, Txt(1), Sp(1),
               T_QUOTE, W("${AMAZON_CREATIVE_ID}"), T_QUOTE, Txt(1), T_NL,
               Sp(16), T_QUOTE, Txt(18), T_QUOTE, Txt(1), Sp(1), T_QUOTE,
               Txt(16), T_QUOTE, T_NL, Sp(12), Txt(1), T_NL, Sp(12),
               W("</script"), T_GT, T_NL, Sp(12), T_NL, Sp(12), Txt(4), Sp(1),
               Txt(8), Sp(1), Txt(5), Sp(1), Txt(8), Sp(1), Txt(1), W("ias"),
               Sp(1), Txt(8), Sp(1), Txt(2), Sp(1), Txt(10), Sp(1), Txt(2),
               T_GT, T_NL, Sp(12) >>
            \o snippet_code
            \o << T_NL, Sp(12), T_NL, Sp(12), W("<script"), T_GT, T_NL, Sp(16),
               Txt(2), Sp(1), Txt(6), Sp(1), Txt(3), Sp(1), Txt(11), Sp(1),
               Txt(4), Sp(1), Txt(4), Sp(1), Txt(6), Sp(1), Txt(7), T_NL,
               Sp(16), Txt(22), Sp(1), Txt(1), Sp(1), Txt(1), T_NL, Sp(20),
               Txt(9), Sp(1), Txt(1), W("${AMAZON_CLICK_URL}"), Txt(2), T_NL,
               Sp(20), Txt(14), Sp(1), Txt(1), W("${AMAZON_IMPRESSION_URL}"),
               Txt(2), T_NL, Sp(20), Txt(11), Sp(1), Txt(1),
               W("${AMAZON_CAMPAIGN_ID}"), Txt(2), T_NL, Sp(20), Txt(11),
               Sp(1), Txt(1), W("${AMAZON_CREATIVE_ID}"), Txt(2), T_NL, Sp(20),
               Txt(18), Sp(1), Txt(18), T_NL, Sp(20), Txt(8), Sp(1), Txt(1),
               T_NL, Sp(24), W("ias"), Txt(1), Sp(1), Txt(14), T_NL, Sp(24),
               Txt(3), Sp(1), Txt(17), T_NL, Sp(20), Txt(1), T_NL, Sp(16),
               Txt(2), T_NL, Sp(16), T_NL, Sp(16), Txt(19), Sp(1), Txt(3),
               Sp(1), Txt(5), Sp(1), Txt(1), Sp(1), Txt(8), Sp(1), Txt(9),
               Sp(1), Txt(24), T_NL, Sp(12), W("</script"), T_GT, T_NL, Sp(8),
               Txt(5), T_GT, T_NL, Sp(8) >>
    IN  Strip(wrapped_code)

\* the text of the Duration element of the VAST wrappers:
\* 00:00:{config.duration:02d}
Duration(config) ==
    <<"0", "0", ":", "0", "0", ":">> \o format_02d(config.duration[1])

\* SnippetTransformer.wrap_vast_phase1: Wrap VAST creative for Phase 1 (DV-only).
wrap_vast_phase1(snippet_code, config) ==
    LET ad_id ==
            Text(config.name)
            \o << Txt(7) >>
        head ==
            << Txt(5), Sp(1), Txt(8), T_QUOTE, Txt(3), T_QUOTE, Sp(1), Txt(9),
               T_QUOTE, Txt(5), T_QUOTE, Txt(1), T_GT, T_NL, Sp(8), W("<VAST"),
               Sp(1), Txt(8), T_QUOTE, Txt(3), T_QUOTE, T_GT, T_NL, Sp(12),
               W("<Ad"), Sp(1), Txt(3), T_QUOTE >>
            \o ad_id
            \o << T_QUOTE, T_GT, T_NL, Sp(16), Txt(8), T_GT, T_NL, Sp(20),
               W("<Ad"), Txt(6), T_GT, Txt(5), Sp(1), Txt(6), Sp(1), Txt(3),
               Sp(1), Txt(5), Sp(1), Txt(11), T_GT, T_NL, Sp(20), W("<VAST"),
               Txt(8), T_GT, T_NL, Sp(24), Txt(9) >>
            \o UrlText(config.snippet_url)
            \o << Txt(4), W("${AMAZON_CACHEBUSTER}"), Txt(2), T_GT, T_NL, Sp(20),
               Txt(14), T_GT, T_NL, Sp(20), T_NL, Sp(20), Txt(4), Sp(1),
               Txt(6), Sp(1), Txt(3), Sp(1), Txt(10), Sp(1), Txt(8), Sp(1),
               Txt(2), T_GT, T_NL, Sp(20), Txt(11), T_GT, T_NL, Sp(24), Txt(9),
               W("${AMAZON_IMPRESSION_URL}"), Txt(2), T_GT, T_NL, Sp(20),
               Txt(12), T_GT, T_NL, Sp(20), T_NL, Sp(20), Txt(4), Sp(1),
               Txt(2), Sp(1), Txt(11), Sp(1), Txt(8), Sp(1), Txt(8), Sp(1),
               Txt(6), Sp(1), Txt(5), Sp(1), Txt(2), T_GT, T_NL, Sp(20),
               Txt(11), T_GT, T_NL, Sp(24), Txt(17), W("tps."),
               W("doubleverify"), W(".com"), Txt(26),
               W("${AMAZON_CAMPAIGN_ID}"), Txt(5), W("${AMAZON_SITE_ID}"),
               Txt(5), W("${AMAZON_PLACEMENT_ID}"), Txt(5),
               W("${AMAZON_CREATIVE_ID}"), Txt(35), W("${AMAZON_CACHEBUSTER}"),
               Txt(2), T_GT, T_NL, Sp(20), Txt(12), T_GT, T_NL, Sp(20), T_NL,
               Sp(20), W("<Creative"), Txt(1), T_GT, T_NL, Sp(24),
               W("<Creative"), T_GT, T_NL, Sp(28), Txt(7), T_GT, T_NL, Sp(32),
               Txt(9), T_GT >>
            \o Text(Duration(config))
            \o << Txt(10), T_GT, T_NL, Sp(32), T_NL, Sp(32), Txt(4), Sp(1),
               Txt(2), Sp(1), Txt(5), Sp(1), Txt(8), Sp(1), Txt(6), Sp(1),
               Txt(2), T_GT, T_NL, Sp(32), W("<TrackingEvents"), T_GT, T_NL,
               Sp(36), Txt(9), Sp(1), W("event="), T_QUOTE, W("start"),
               T_QUOTE, T_GT, T_NL, Sp(40), Txt(17), W("tps."),
               W("doubleverify"), W(".com"), Txt(26),
               W("${AMAZON_CAMPAIGN_ID}"), Txt(5), W("start"), Txt(4),
               W("${AMAZON_CACHEBUSTER}"), Txt(2), T_GT, T_NL, Sp(36), Txt(10),
               T_GT, T_NL, Sp(36), Txt(9), Sp(1), W("event="), T_QUOTE,
               Txt(13), T_QUOTE, T_GT, T_NL, Sp(40), Txt(17), W("tps."),
               W("doubleverify"), W(".com"), Txt(26),
               W("${AMAZON_CAMPAIGN_ID}"), Txt(11), W("${AMAZON_CACHEBUSTER}"),
               Txt(2), T_GT, T_NL, Sp(36), Txt(10), T_GT, T_NL, Sp(36), Txt(9),
               Sp(1), W("event="), T_QUOTE, Txt(8), T_QUOTE, T_GT, T_NL,
               Sp(40), Txt(17), W("tps."), W("doubleverify"), W(".com"),
               Txt(26), W("${AMAZON_CAMPAIGN_ID}"), Txt(11),
               W("${AMAZON_CACHEBUSTER}"), Txt(2), T_GT, T_NL, Sp(36), Txt(10),
               T_GT, T_NL, Sp(36), Txt(9), Sp(1), W("event="), T_QUOTE,
               Txt(13), T_QUOTE, T_GT, T_NL, Sp(40), Txt(17), W("tps."),
               W("doubleverify"), W(".com"), Txt(26),
               W("${AMAZON_CAMPAIGN_ID}"), Txt(11), W("${AMAZON_CACHEBUSTER}"),
               Txt(2), T_GT, T_NL, Sp(36), Txt(10), T_GT, T_NL, Sp(36), Txt(9),
               Sp(1), W("event="), T_QUOTE, W("complete"), T_QUOTE, T_GT, T_NL,
               Sp(40), Txt(17), W("tps."), W("doubleverify"), W(".com"),
               Txt(26), W("${AMAZON_CAMPAIGN_ID}"), Txt(5), W("complete"),
               Txt(4), W("${AMAZON_CACHEBUSTER}"), Txt(2), T_GT, T_NL, Sp(36),
               Txt(10), T_GT, T_NL, Sp(32), Txt(16), T_GT, T_NL, Sp(32), T_NL,
               Sp(32), Txt(12), T_GT, T_NL, Sp(36), Txt(13), T_GT, T_NL,
               Sp(40), Txt(9), W("${AMAZON_CLICK_URL}"), Txt(2), T_GT, T_NL,
               Sp(36), Txt(14), T_GT, T_NL, Sp(32), Txt(13), T_GT, T_NL,
               Sp(28), Txt(8), T_GT, T_NL, Sp(28), T_NL, Sp(28), Txt(4), Sp(1),
               Txt(7), Sp(1), Txt(6), Sp(1), Txt(9), Sp(1), Txt(3), Sp(1),
               Txt(8), Sp(1), Txt(2), T_GT >>
        canvas_width == Split(config.dimensions, "x")[1]
        canvas_height == Split(config.dimensions, "x")[2]
        canvas ==
            << T_NL, Sp(28), Txt(13), T_GT, T_NL, Sp(32), Txt(10), Sp(1),
               Txt(6), T_QUOTE >>
            \o Text(canvas_width)
            \o << T_QUOTE, Sp(1), Txt(7), T_QUOTE >>
            \o Text(canvas_height)
            \o << T_QUOTE, T_GT, T_NL, Sp(36), Txt(15), Sp(1), Txt(13), T_QUOTE,
               Txt(9), T_QUOTE, T_GT, T_NL, Sp(40), Txt(9), T_NL, Sp(40),
               Txt(4), Sp(1), Txt(6), T_QUOTE, Txt(21), T_QUOTE, Sp(1), Txt(6),
               T_QUOTE, Txt(6), Sp(1) >>
            \o Text(canvas_width)
            \o << Txt(3), Sp(1), Txt(7), Sp(1) >>
            \o Text(canvas_height)
            \o << Txt(3), Sp(1), Txt(11), Sp(1), Txt(22), Sp(1), Txt(8), Sp(1),
               Txt(9), Sp(1), Txt(8), Sp(1), Txt(5), Sp(1), Txt(12), Sp(1),
               Txt(7), Sp(1), Txt(16), Sp(1), Txt(7), Sp(1), Txt(6), Sp(1),
               Txt(6), Sp(1), Txt(12), Sp(1), Txt(6), Sp(1), Txt(11), Sp(1),
               Txt(7), Sp(1), Txt(8), T_QUOTE, Sp(1), Txt(8), T_QUOTE, Txt(13),
               W("${AMAZON_CLICK_URL}"), Txt(2), Sp(1), Txt(10), T_QUOTE, T_GT,
               T_NL, Sp(44), Txt(4), Sp(1), Txt(6), T_QUOTE, Txt(11), Sp(1),
               Txt(7), T_QUOTE, T_GT, T_NL, Sp(48), Txt(4), Sp(1), Txt(6),
               T_QUOTE, Txt(10), Sp(1), Txt(5), Sp(1), Txt(12), Sp(1), Txt(5),
               T_QUOTE, T_GT, Txt(7), Sp(1), Txt(10), T_GT, T_NL, Sp(48),
               Txt(4), Sp(1), Txt(6), T_QUOTE, Txt(10), Sp(1), Txt(4), T_QUOTE,
               T_GT, Txt(8), Sp(1), Txt(9), T_GT, T_NL, Sp(44), Txt(5), T_GT,
               T_NL, Sp(40), Txt(5), T_GT, T_NL, Sp(40), Txt(2), T_GT, T_NL,
               Sp(36), Txt(16), T_GT, T_NL, Sp(36), Txt(22), T_GT, T_NL,
               Sp(40), Txt(9), W("${AMAZON_CLICK_URL}"), Txt(2), T_GT, T_NL,
               Sp(36), Txt(23), T_GT, T_NL, Sp(32), Txt(11), T_GT, T_NL,
               Sp(28), Txt(14), T_GT >>
        tail ==
            << T_NL, Sp(24), Txt(10), T_GT, T_NL, Sp(20), Txt(11), T_GT, T_NL,
               Sp(20), T_NL, Sp(20), Txt(11), T_GT, T_NL, Sp(24), Txt(10),
               Sp(1), Txt(5), T_QUOTE, Txt(10), T_QUOTE, T_GT, T_NL, Sp(28),
               Txt(11), T_GT, T_NL, Sp(32), Txt(6), T_GT, Txt(14), T_GT, T_NL,
               Sp(32), Txt(18), T_GT, Txt(29), T_GT, T_NL, Sp(32),
               W("<Creative"), Txt(4), T_GT >>
            \o Text(config.name)
            \o << Txt(14), T_GT, T_NL, Sp(28), Txt(12), T_GT, T_NL, Sp(24),
               Txt(11), T_GT, T_NL, Sp(20), Txt(12), T_GT, T_NL, Sp(16),
               Txt(9), T_GT, T_NL, Sp(12), Txt(4), T_GT, T_NL, Sp(8), Txt(6),
               T_GT >>
        vast_wrapper ==
            head \o (IF config.branded_canvas THEN canvas ELSE <<>>) \o tail
    IN  Strip(vast_wrapper)

\* SnippetTransformer.wrap_vast_phase2: Wrap VAST creative for Phase 2 (IAS S2S + DV).
wrap_vast_phase2(snippet_code, config) ==
    LET ad_id ==
            Text(config.name)
            \o << Txt(7) >>
        head ==
            << Txt(5), Sp(1), Txt(8), T_QUOTE, Txt(3), T_QUOTE, Sp(1), Txt(9),
               T_QUOTE, Txt(5), T_QUOTE, Txt(1), T_GT, T_NL, Sp(8), W("<VAST"),
               Sp(1), Txt(8), T_QUOTE, Txt(3), T_QUOTE, T_GT, T_NL, Sp(12),
               W("<Ad"), Sp(1), Txt(3), T_QUOTE >>
            \o ad_id
            \o << T_QUOTE, T_GT, T_NL, Sp(16), Txt(8), T_GT, T_NL, Sp(20),
               W("<Ad"), Txt(6), T_GT, Txt(5), Sp(1), Txt(6), Sp(1), Txt(3),
               Sp(1), Txt(5), Sp(1), Txt(11), T_GT, T_NL, Sp(20), W("<VAST"),
               Txt(8), T_GT, T_NL, Sp(24), Txt(9) >>
            \o UrlText(config.snippet_url)
            \o << Txt(4), W("${AMAZON_CACHEBUSTER}"), Txt(2), T_GT, T_NL, Sp(20),
               Txt(14), T_GT, T_NL, Sp(20), T_NL, Sp(20), Txt(4), Sp(1),
               Txt(6), Sp(1), Txt(3), Sp(1), Txt(10), Sp(1), Txt(8), Sp(1),
               Txt(2), T_GT, T_NL, Sp(20), Txt(11), T_GT, T_NL, Sp(24), Txt(9),
               W("${AMAZON_IMPRESSION_URL}"), Txt(2), T_GT, T_NL, Sp(20),
               Txt(12), T_GT, T_NL, Sp(20), T_NL, Sp(20), Txt(4), Sp(1),
               Txt(2), Sp(1), Txt(11), Sp(1), Txt(8), Sp(1), Txt(8), Sp(1),
               Txt(6), Sp(1), Txt(5), Sp(1), Txt(2), T_GT, T_NL, Sp(20),
               Txt(11), T_GT, T_NL, Sp(24), Txt(17), W("tps."),
               W("doubleverify"), W(".com"), Txt(26),
               W("${AMAZON_CAMPAIGN_ID}"), Txt(5), W("${AMAZON_SITE_ID}"),
               Txt(5), W("${AMAZON_PLACEMENT_ID}"), Txt(5),
               W("${AMAZON_CREATIVE_ID}"), Txt(35), W("${AMAZON_CACHEBUSTER}"),
               Txt(2), T_GT, T_NL, Sp(20), Txt(12), T_GT, T_NL, Sp(20), T_NL,
               Sp(20), W("<Creative"), Txt(1), T_GT, T_NL, Sp(24),
               W("<Creative"), T_GT, T_NL, Sp(28), Txt(7), T_GT, T_NL, Sp(32),
               Txt(9), T_GT >>
            \o Text(Duration(config))
            \o << Txt(10), T_GT, T_NL, Sp(32), T_NL, Sp(32), Txt(4), Sp(1),
               Txt(2), Sp(1), Txt(5), Sp(1), Txt(8), Sp(1), Txt(6), Sp(1),
               Txt(2), T_GT, T_NL, Sp(32), W("<TrackingEvents"), T_GT, T_NL,
               Sp(36), Txt(9), Sp(1), W("event="), T_QUOTE, W("start"),
               T_QUOTE, T_GT, T_NL, Sp(40), Txt(17), W("tps."),
               W("doubleverify"), W(".com"), Txt(26),
               W("${AMAZON_CAMPAIGN_ID}"), Txt(5), W("start"), Txt(4),
               W("${AMAZON_CACHEBUSTER}"), Txt(2), T_GT, T_NL, Sp(36), Txt(10),
               T_GT, T_NL, Sp(36), Txt(9), Sp(1), W("event="), T_QUOTE,
               Txt(13), T_QUOTE, T_GT, T_NL, Sp(40), Txt(17), W("tps."),
               W("doubleverify"), W(".com"), Txt(26),
               W("${AMAZON_CAMPAIGN_ID}"), Txt(11), W("${AMAZON_CACHEBUSTER}"),
               Txt(2), T_GT, T_NL, Sp(36), Txt(10), T_GT, T_NL, Sp(36), Txt(9),
               Sp(1), W("event="), T_QUOTE, Txt(8), T_QUOTE, T_GT, T_NL,
               Sp(40), Txt(17), W("tps."), W("doubleverify"), W(".com"),
               Txt(26), W("${AMAZON_CAMPAIGN_ID}"), Txt(11),
               W("${AMAZON_CACHEBUSTER}"), Txt(2), T_GT, T_NL, Sp(36), Txt(10),
               T_GT, T_NL, Sp(36), Txt(9), Sp(1), W("event="), T_QUOTE,
               Txt(13), T_QUOTE, T_GT, T_NL, Sp(40), Txt(17), W("tps."),
               W("doubleverify"), W(".com"), Txt(26),
               W("${AMAZON_CAMPAIGN_ID}"), Txt(11), W("${AMAZON_CACHEBUSTER}"),
               Txt(2), T_GT, T_NL, Sp(36), Txt(10), T_GT, T_NL, Sp(36), Txt(9),
               Sp(1), W("event="), T_QUOTE, W("complete"), T_QUOTE, T_GT, T_NL,
               Sp(40), Txt(17), W("tps."), W("doubleverify"), W(".com"),
               Txt(26), W("${AMAZON_CAMPAIGN_ID}"), Txt(5), W("complete"),
               Txt(4), W("${AMAZON_CACHEBUSTER}"), Txt(2), T_GT, T_NL, Sp(36),
               Txt(10), T_GT, T_NL, Sp(32), Txt(16), T_GT, T_NL, Sp(32), T_NL,
               Sp(32), Txt(12), T_GT, T_NL, Sp(36), Txt(13), T_GT, T_NL,
               Sp(40), Txt(9), W("${AMAZON_CLICK_URL}"), Txt(2), T_GT, T_NL,
               Sp(36), Txt(14), T_GT, T_NL, Sp(32), Txt(13), T_GT, T_NL,
               Sp(28), Txt(8), T_GT, T_NL, Sp(28), T_NL, Sp(28), Txt(4), Sp(1),
               Txt(7), Sp(1), Txt(6), Sp(1), Txt(9), Sp(1), Txt(3), Sp(1),
               Txt(8), Sp(1), Txt(2), T_GT >>
        canvas_width == Split(config.dimensions, "x")[1]
        canvas_height == Split(config.dimensions, "x")[2]
        canvas ==
            << T_NL, Sp(28), Txt(13), T_GT, T_NL, Sp(32), Txt(10), Sp(1),
               Txt(6), T_QUOTE >>
            \o Text(canvas_width)
            \o << T_QUOTE, Sp(1), Txt(7), T_QUOTE >>
            \o Text(canvas_height)
            \o << T_QUOTE, T_GT, T_NL, Sp(36), Txt(15), Sp(1), Txt(13), T_QUOTE,
               Txt(9), T_QUOTE, T_GT, T_NL, Sp(40), Txt(9), T_NL, Sp(40),
               Txt(4), Sp(1), Txt(6), T_QUOTE, Txt(21), T_QUOTE, Sp(1), Txt(6),
               T_QUOTE, Txt(6), Sp(1) >>
            \o Text(canvas_width)
            \o << Txt(3), Sp(1), Txt(7), Sp(1) >>
            \o Text(canvas_height)
            \o << Txt(3), Sp(1), Txt(11), Sp(1), Txt(22), Sp(1), Txt(8), Sp(1),
               Txt(9), Sp(1), Txt(8), Sp(1), Txt(5), Sp(1), Txt(12), Sp(1),
               Txt(7), Sp(1), Txt(16), Sp(1), Txt(7), Sp(1), Txt(6), Sp(1),
               Txt(6), Sp(1), Txt(12), Sp(1), Txt(6), Sp(1), Txt(11), Sp(1),
               Txt(7), Sp(1), Txt(8), T_QUOTE, Sp(1), Txt(8), T_QUOTE, Txt(13),
               W("${AMAZON_CLICK_URL}"), Txt(2), Sp(1), Txt(10), T_QUOTE, T_GT,
               T_NL, Sp(44), Txt(4), Sp(1), Txt(6), T_QUOTE, Txt(11), Sp(1),
               Txt(7), T_QUOTE, T_GT, T_NL, Sp(48), Txt(4), Sp(1), Txt(6),
               T_QUOTE, Txt(10), Sp(1), Txt(5), Sp(1), Txt(12), Sp(1), Txt(5),
               T_QUOTE, T_GT, Txt(7), Sp(1), Txt(10), T_GT, T_NL, Sp(48),
               Txt(4), Sp(1), Txt(6), T_QUOTE, Txt(10), Sp(1), Txt(4), T_QUOTE,
               T_GT, Txt(8), Sp(1), Txt(9), T_GT, T_NL, Sp(44), Txt(5), T_GT,
               T_NL, Sp(40), Txt(5), T_GT, T_NL, Sp(40), Txt(2), T_GT, T_NL,
               Sp(36), Txt(16), T_GT, T_NL, Sp(36), Txt(22), T_GT, T_NL,
               Sp(40), Txt(9), W("${AMAZON_CLICK_URL}"), Txt(2), T_GT, T_NL,
               Sp(36), Txt(23), T_GT, T_NL, Sp(32), Txt(11), T_GT, T_NL,
               Sp(28), Txt(14), T_GT >>
        tail ==
            << T_NL, Sp(24), Txt(10), T_GT, T_NL, Sp(20), Txt(11), T_GT, T_NL,
               Sp(20), T_NL, Sp(20), Txt(11), T_GT, T_NL, Sp(24), Txt(4),
               Sp(1), W("ias"), Sp(1), Txt(3), Sp(1), Txt(13), Sp(1), Txt(2),
               T_GT, T_NL, Sp(24), Txt(10), Sp(1), Txt(5), T_QUOTE, W("ias"),
               Txt(4), T_QUOTE, T_GT, T_NL, Sp(28), Txt(1), W("ias"), Txt(4),
               T_GT, T_NL, Sp(32), Txt(7), T_GT >>
            \o Text(config.viewability_config.dsp_seat_id)
            \o << Txt(8), T_GT, T_NL, Sp(32), Txt(12), T_GT >>
            \o Text(config.viewability_config.pub_id)
            \o << Txt(13), T_GT, T_NL, Sp(32), Txt(16), T_GT, Txt(33), T_GT, T_NL,
               Sp(32), Txt(11), T_GT, W("${AMAZON_CAMPAIGN_ID}"), Txt(12),
               T_GT, T_NL, Sp(32), W("<Creative"), Txt(2), T_GT,
               W("${AMAZON_CREATIVE_ID}"), Txt(12), T_GT, T_NL, Sp(28), Txt(2),
               W("ias"), Txt(4), T_GT, T_NL, Sp(24), Txt(11), T_GT, T_NL,
               Sp(24), T_NL, Sp(24), Txt(10), Sp(1), Txt(5), T_QUOTE, Txt(10),
               T_QUOTE, T_GT, T_NL, Sp(28), Txt(11), T_GT, T_NL, Sp(32),
               Txt(6), T_GT, Txt(14), T_GT, T_NL, Sp(32), Txt(18), T_GT,
               W("ias"), Txt(39), T_GT, T_NL, Sp(32), W("<Creative"), Txt(4),
               T_GT >>
            \o Text(config.name)
            \o << Txt(14), T_GT, T_NL, Sp(32), Txt(18), T_GT, Txt(23), T_GT, T_NL,
               Sp(28), Txt(12), T_GT, T_NL, Sp(24), Txt(11), T_GT, T_NL,
               Sp(20), Txt(12), T_GT, T_NL, Sp(16), Txt(9), T_GT, T_NL, Sp(12),
               Txt(4), T_GT, T_NL, Sp(8), Txt(6), T_GT >>
        vast_wrapper ==
            head \o (IF config.branded_canvas THEN canvas ELSE <<>>) \o tail
    IN  Strip(vast_wrapper)

\* the VAST wrappers raise on this configuration
wrap_vast_raises(config) == config.duration = <<>>

(***************************************************************************)
(* app/services/kargo_client.py: the snippets of MockKargoClient.          *)
(***************************************************************************)
runway_snippet ==
    << T_NL, Sp(8), Txt(4), Sp(1), Txt(6), T_QUOTE, Txt(21), T_QUOTE, Sp(1),
       Txt(12), T_QUOTE, Txt(6), T_QUOTE, Sp(1), Txt(16), T_QUOTE, Txt(6),
       T_QUOTE, T_GT, T_NL, Sp(12), W("<script"), Sp(1), Txt(5), T_QUOTE,
       Txt(15), T_QUOTE, T_GT, T_NL, Sp(16), Txt(3), Sp(1), Txt(11), Sp(1),
       Txt(1), Sp(1), Txt(1), T_NL, Sp(20), Txt(7), Sp(1), Txt(9), T_NL,
       Sp(20), Txt(11), Sp(1), Txt(9), T_NL, Sp(20), Txt(9), Sp(1), Txt(1),
       W("${CLICK_URL}"), Txt(2), T_NL, Sp(20), Txt(14), Sp(1), Txt(1),
       W("${IMPRESSION_URL}"), Txt(2), T_NL, Sp(20), Txt(11), Sp(1), Txt(5),
       T_NL, Sp(20), Txt(9), Sp(1), Txt(5), T_NL, Sp(16), Txt(2), T_NL, Sp(16),
       T_NL, Sp(16), Txt(2), Sp(1), Txt(5), Sp(1), Txt(8), Sp(1), Txt(14),
       T_NL, Sp(16), Txt(11), Sp(1), Txt(1), T_NL, Sp(20), Txt(3), Sp(1),
       Txt(11), Sp(1), Txt(1), Sp(1), Txt(33), T_NL, Sp(20), Txt(15), Sp(1),
       Txt(1), Sp(1), Txt(18), W(".com"), Txt(24), T_NL, Sp(20), Txt(39), T_NL,
       Sp(16), Txt(5), T_NL, Sp(12), W("</script"), T_GT, T_NL, Sp(12), T_NL,
       Sp(12), Txt(4), Sp(1), W("ias"), Sp(1), Txt(8), Sp(1), Txt(5), Sp(1),
       Txt(2), Sp(1), Txt(7), Sp(1), Txt(2), Sp(1), Txt(5), Sp(1), Txt(2),
       Sp(1), Txt(2), T_GT, T_NL, Sp(12), W("<img"), Sp(1), Txt(4), T_QUOTE,
       Txt(8), W("pixel."), W("adsafeprotected"), W(".com"), Txt(39),
       W("${GDPR}"), Txt(14), W("${GDPR_CONSENT}"), T_QUOTE, Sp(1), T_NL,
       Sp(17), Txt(6), T_QUOTE, Txt(13), T_QUOTE, Sp(1), Txt(6), T_QUOTE,
       Txt(1), T_QUOTE, Sp(1), Txt(7), T_QUOTE, Txt(1), T_QUOTE, T_GT, T_NL,
       Sp(12), W("<script"), Sp(1), Txt(5), T_QUOTE, Txt(15), T_QUOTE, Sp(1),
       Txt(4), T_QUOTE, Txt(8), W("fw."), W("adsafeprotected"), W(".com"),
       Txt(32), T_QUOTE, T_GT, W("</script"), T_GT, T_NL, Sp(12), T_NL, Sp(12),
       Txt(4), Sp(1), W("doubleverify"), Sp(1), Txt(8), Sp(1), Txt(5), Sp(1),
       Txt(2), Sp(1), Txt(7), Sp(1), Txt(3), Sp(1), Txt(6), Sp(1), Txt(4),
       Sp(1), Txt(2), T_GT, T_NL, Sp(12), W("<script"), Sp(1), Txt(4), T_QUOTE,
       Txt(12), W("doubleverify"), W(".com"), Txt(1), W("dvtp_src"), Txt(19),
       W("${CAMPAIGN_ID}"), Txt(5), W("${SITE_ID}"), Txt(5),
       W("${PLACEMENT_ID}"), T_QUOTE, T_GT, W("</script"), T_GT, T_NL, Sp(12),
       Txt(9), T_GT, T_NL, Sp(16), W("<img"), Sp(1), Txt(4), T_QUOTE, Txt(8),
       W("tps."), W("doubleverify"), W(".com"), Txt(26), W("${CAMPAIGN_ID}"),
       Txt(5), W("${SITE_ID}"), Txt(5), W("${PLACEMENT_ID}"), T_QUOTE, Sp(1),
       Txt(6), T_QUOTE, Txt(13), T_QUOTE, T_GT, T_NL, Sp(12), Txt(10), T_GT,
       T_NL, Sp(12), T_NL, Sp(12), Txt(4), Sp(1), Txt(8), Sp(1), Txt(7), Sp(1),
       Txt(2), T_GT, T_NL, Sp(12), Txt(4), Sp(1), Txt(6), T_QUOTE, Txt(16),
       T_QUOTE, Sp(1), Txt(6), T_QUOTE, Txt(6), Sp(1), Txt(6), Sp(1), Txt(7),
       Sp(1), Txt(5), Sp(1), Txt(9), Sp(1), Txt(9), Sp(1), Txt(9), Sp(1),
       Txt(7), Sp(1), Txt(11), Sp(1), Txt(22), Sp(1), Txt(8), Sp(1), Txt(9),
       T_QUOTE, T_GT, T_NL, Sp(16), Txt(4), Sp(1), Txt(6), T_QUOTE, Txt(14),
       T_QUOTE, Sp(1), Txt(6), T_QUOTE, Txt(9), Sp(1), Txt(9), Sp(1), Txt(4),
       Sp(1), Txt(2), Sp(1), Txt(5), Sp(1), Txt(2), Sp(1), Txt(6), Sp(1),
       Txt(5), Sp(1), Txt(7), Sp(1), Txt(5), Sp(1), Txt(8), Sp(1), Txt(5),
       Sp(1), Txt(12), Sp(1), Txt(7), Sp(1), Txt(16), Sp(1), Txt(7), Sp(1),
       Txt(6), Sp(1), Txt(6), Sp(1), Txt(12), Sp(1), Txt(6), Sp(1), Txt(11),
       T_QUOTE, T_GT, T_NL, Sp(20), Txt(4), Sp(1), Txt(6), T_QUOTE, Txt(11),
       T_QUOTE, Sp(1), Txt(6), T_QUOTE, Txt(11), Sp(1), Txt(7), T_QUOTE, T_GT,
       T_NL, Sp(24), Txt(3), Sp(1), Txt(6), T_QUOTE, Txt(7), Sp(1), Txt(2),
       Sp(1), Txt(10), Sp(1), Txt(5), Sp(1), Txt(12), Sp(1), Txt(5), T_QUOTE,
       T_GT, Txt(7), Sp(1), Txt(5), Sp(1), Txt(11), T_GT, T_NL, Sp(24), Txt(2),
       Sp(1), Txt(6), T_QUOTE, Txt(7), Sp(1), Txt(2), Sp(1), Txt(10), Sp(1),
       Txt(5), T_QUOTE, T_GT, Txt(5), Sp(1), Txt(2), Sp(1), Txt(6), Sp(1),
       Txt(3), Sp(1), Txt(10), T_GT, T_NL, Sp(20), Txt(5), T_GT, T_NL, Sp(16),
       Txt(5), T_GT, T_NL, Sp(16), T_NL, Sp(16), Txt(4), Sp(1), Txt(9), Sp(1),
       Txt(5), Sp(1), Txt(7), Sp(1), Txt(10), Sp(1), Txt(2), T_GT, T_NL,
       Sp(16), Txt(4), Sp(1), Txt(6), T_QUOTE, Txt(16), T_QUOTE, Sp(1), Txt(6),
       T_QUOTE, Txt(8), Sp(1), Txt(5), Sp(1), Txt(9), Sp(1), Txt(9), Sp(1),
       Txt(4), Sp(1), Txt(5), Sp(1), Txt(5), Sp(1), Txt(2), Sp(1), Txt(6),
       Sp(1), Txt(6), Sp(1), Txt(7), Sp(1), Txt(6), Sp(1), Txt(11), Sp(1),
       Txt(6), Sp(1), Txt(7), Sp(1), Txt(3), Sp(1), Txt(5), Sp(1), Txt(5),
       Sp(1), Txt(8), Sp(1), Txt(5), T_QUOTE, T_GT, T_NL, Sp(20), Txt(4),
       Sp(1), Txt(6), T_QUOTE, Txt(8), Sp(1), Txt(5), Sp(1), Txt(11), Sp(1),
       Txt(7), T_QUOTE, T_GT, T_NL, Sp(24), Txt(3), Sp(1), Txt(6), T_QUOTE,
       Txt(6), Sp(1), Txt(8), Sp(1), Txt(14), Sp(1), Txt(5), T_QUOTE, T_GT,
       Txt(8), Sp(1), Txt(14), T_GT, T_NL, Sp(24), Txt(2), Sp(1), Txt(6),
       T_QUOTE, Txt(6), Sp(1), Txt(5), Sp(1), Txt(14), Sp(1), Txt(5), T_QUOTE,
       T_GT, Txt(6), Sp(1), Txt(4), Sp(1), Txt(3), Sp(1), Txt(7), Sp(1),
       Txt(7), Sp(1), Txt(3), Sp(1), Txt(8), Sp(1), Txt(4), Sp(1), Txt(5),
       Sp(1), Txt(3), Sp(1), Txt(9), T_GT, T_NL, Sp(24), Txt(7), Sp(1), Txt(8),
       T_QUOTE, Txt(33), Sp(1), Txt(9), T_QUOTE, Sp(1), Txt(6), T_QUOTE,
       Txt(11), Sp(1), Txt(8), Sp(1), Txt(6), Sp(1), Txt(6), Sp(1), Txt(7),
       Sp(1), Txt(5), Sp(1), Txt(8), Sp(1), Txt(4), Sp(1), Txt(5), Sp(1),
       Txt(14), Sp(1), Txt(4), Sp(1), Txt(7), Sp(1), Txt(8), T_QUOTE, T_GT,
       Txt(5), Sp(1), Txt(12), T_GT, T_NL, Sp(20), Txt(5), T_GT, T_NL, Sp(16),
       Txt(5), T_GT, T_NL, Sp(12), Txt(5), T_GT, T_NL, Sp(12), T_NL, Sp(12),
       Txt(4), Sp(1), Txt(5), Sp(1), Txt(9), Sp(1), Txt(2), T_GT, T_NL, Sp(12),
       W("<script"), T_GT, T_NL, Sp(16), Txt(2), Sp(1), Txt(5), Sp(1), Txt(8),
       Sp(1), Txt(12), T_NL, Sp(16), Txt(8), Sp(1), Txt(23), Sp(1), Txt(1),
       T_NL, Sp(20), Txt(30), W(".com"), Txt(8), Sp(1), Txt(1), T_NL, Sp(24),
       Txt(7), Sp(1), Txt(7), T_NL, Sp(24), Txt(5), Sp(1), Txt(16), T_NL,
       Sp(28), Txt(12), Sp(1), Txt(8), T_NL, Sp(28), Txt(6), Sp(1), Txt(6),
       T_NL, Sp(28), Txt(10), Sp(1), Txt(10), T_NL, Sp(24), Txt(2), T_NL,
       Sp(20), Txt(3), T_NL, Sp(16), Txt(1), T_NL, Sp(16), T_NL, Sp(16),
       Txt(2), Sp(1), Txt(3), Sp(1), Txt(5), Sp(1), Txt(3), Sp(1), Txt(9),
       Sp(1), Txt(8), T_NL, Sp(16), Txt(69), Sp(1), Txt(10), Sp(1), Txt(1),
       T_NL, Sp(20), Txt(30), T_NL, Sp(20), Txt(57), Sp(1), Txt(1), Sp(1),
       Txt(8), T_NL, Sp(16), Txt(3), T_NL, Sp(12), W("</script"), T_GT, T_NL,
       Sp(8), Txt(5), T_GT, T_NL, Sp(8) >>

vast_snippet ==
    << T_NL, Sp(8), Txt(5), Sp(1), Txt(8), T_QUOTE, Txt(3), T_QUOTE, Sp(1),
       Txt(9), T_QUOTE, Txt(5), T_QUOTE, Txt(1), T_GT, T_NL, Sp(8), W("<VAST"),
       Sp(1), Txt(8), T_QUOTE, Txt(3), T_QUOTE, T_GT, T_NL, Sp(12), W("<Ad"),
       Sp(1), Txt(3), T_QUOTE, Txt(19), T_QUOTE, T_GT, T_NL, Sp(16), Txt(7),
       T_GT, T_NL, Sp(20), W("<Ad"), Txt(6), Sp(1), Txt(8), T_QUOTE, Txt(3),
       T_QUOTE, T_GT, Txt(15), T_GT, T_NL, Sp(20), W("<Ad"), Txt(5), T_GT,
       Txt(16), Sp(1), Txt(5), Sp(1), Txt(8), Sp(1), Txt(4), Sp(1), Txt(7),
       Sp(1), Txt(8), T_GT, Txt(9), T_GT, T_NL, Sp(20), Txt(12), T_GT, Txt(18),
       Sp(1), Txt(8), Sp(1), Txt(5), Sp(1), Txt(4), Sp(1), Txt(11), Sp(1),
       Txt(7), Sp(1), Txt(6), Sp(1), Txt(9), T_GT, Txt(13), T_GT, T_NL, Sp(20),
       T_NL, Sp(20), Txt(4), Sp(1), Txt(10), Sp(1), Txt(8), Sp(1), Txt(2),
       T_GT, T_NL, Sp(20), Txt(11), T_GT, Txt(32), W(".com"), Txt(21),
       W("${CACHEBUSTER}"), Txt(2), T_GT, Txt(12), T_GT, T_NL, Sp(20), T_NL,
       Sp(20), Txt(4), Sp(1), W("ias"), Sp(1), Txt(8), Sp(1), Txt(5), Sp(1),
       Txt(2), Sp(1), Txt(7), Sp(1), Txt(2), Sp(1), Txt(5), Sp(1), Txt(2),
       Sp(1), Txt(2), T_GT, T_NL, Sp(20), Txt(11), T_GT, Txt(17), W("pixel."),
       W("adsafeprotected"), W(".com"), Txt(37), W("${CACHEBUSTER}"), Txt(2),
       T_GT, Txt(12), T_GT, T_NL, Sp(20), T_NL, Sp(20), Txt(4), Sp(1),
       W("doubleverify"), Sp(1), Txt(8), Sp(1), Txt(5), Sp(1), Txt(2), Sp(1),
       Txt(8), Sp(1), Txt(2), T_GT, T_NL, Sp(20), Txt(11), T_GT, Txt(17),
       W("tps."), W("doubleverify"), W(".com"), Txt(26), W("${CAMPAIGN_ID}"),
       Txt(5), W("${SITE_ID}"), Txt(5), W("${PLACEMENT_ID}"), Txt(4),
       W("${CACHEBUSTER}"), Txt(2), T_GT, Txt(12), T_GT, T_NL, Sp(20), T_NL,
       Sp(20), W("<Creative"), Txt(1), T_GT, T_NL, Sp(24), W("<Creative"),
       Sp(1), Txt(3), T_QUOTE, Txt(14), T_QUOTE, Sp(1), Txt(9), T_QUOTE,
       Txt(1), T_QUOTE, T_GT, T_NL, Sp(28), Txt(7), T_GT, T_NL, Sp(32), Txt(9),
       T_GT, Txt(18), T_GT, T_NL, Sp(32), W("<TrackingEvents"), T_GT, T_NL,
       Sp(36), Txt(9), Sp(1), W("event="), T_QUOTE, W("start"), T_QUOTE, T_GT,
       Txt(32), W(".com"), Txt(7), W("start"), Txt(8), T_GT, Txt(10), T_GT,
       T_NL, Sp(36), Txt(9), Sp(1), W("event="), T_QUOTE, Txt(13), T_QUOTE,
       T_GT, Txt(32), W(".com"), Txt(17), T_GT, Txt(10), T_GT, T_NL, Sp(36),
       Txt(9), Sp(1), W("event="), T_QUOTE, Txt(8), T_QUOTE, T_GT, Txt(32),
       W(".com"), Txt(17), T_GT, Txt(10), T_GT, T_NL, Sp(36), Txt(9), Sp(1),
       W("event="), T_QUOTE, Txt(13), T_QUOTE, T_GT, Txt(32), W(".com"),
       Txt(17), T_GT, Txt(10), T_GT, T_NL, Sp(36), Txt(9), Sp(1), W("event="),
       T_QUOTE, W("complete"), T_QUOTE, T_GT, Txt(32), W(".com"), Txt(7),
       W("complete"), Txt(8), T_GT, Txt(10), T_GT, T_NL, Sp(36), T_NL, Sp(36),
       Txt(4), Sp(1), W("doubleverify"), Sp(1), Txt(5), Sp(1), Txt(8), Sp(1),
       Txt(2), T_GT, T_NL, Sp(36), Txt(9), Sp(1), W("event="), T_QUOTE,
       W("start"), T_QUOTE, T_GT, Txt(17), W("tps."), W("doubleverify"),
       W(".com"), Txt(26), W("${CAMPAIGN_ID}"), Txt(5), W("start"), Txt(2),
       T_GT, Txt(10), T_GT, T_NL, Sp(36), Txt(9), Sp(1), W("event="), T_QUOTE,
       W("complete"), T_QUOTE, T_GT, Txt(17), W("tps."), W("doubleverify"),
       W(".com"), Txt(26), W("${CAMPAIGN_ID}"), Txt(5), W("complete"), Txt(2),
       T_GT, Txt(10), T_GT, T_NL, Sp(32), Txt(16), T_GT, T_NL, Sp(32), T_NL,
       Sp(32), Txt(11), T_GT, T_NL, Sp(36), Txt(10), Sp(1), Txt(9), T_QUOTE,
       Txt(11), T_QUOTE, Sp(1), Txt(5), T_QUOTE, Txt(9), T_QUOTE, Sp(1),
       Txt(6), T_QUOTE, Txt(4), T_QUOTE, Sp(1), Txt(7), T_QUOTE, Txt(4),
       T_QUOTE, Sp(1), Txt(9), T_QUOTE, Txt(4), T_QUOTE, Sp(1), Txt(20),
       T_QUOTE, Txt(4), T_QUOTE, T_GT, T_NL, Sp(40), Txt(26), W(".com"),
       Txt(30), T_GT, T_NL, Sp(36), Txt(11), T_GT, T_NL, Sp(36), Txt(10),
       Sp(1), Txt(9), T_QUOTE, Txt(11), T_QUOTE, Sp(1), Txt(5), T_QUOTE,
       Txt(10), T_QUOTE, Sp(1), Txt(6), T_QUOTE, Txt(4), T_QUOTE, Sp(1),
       Txt(7), T_QUOTE, Txt(4), T_QUOTE, Sp(1), Txt(9), T_QUOTE, Txt(4),
       T_QUOTE, Sp(1), Txt(20), T_QUOTE, Txt(4), T_QUOTE, T_GT, T_NL, Sp(40),
       Txt(26), W(".com"), Txt(31), T_GT, T_NL, Sp(36), Txt(11), T_GT, T_NL,
       Sp(32), Txt(12), T_GT, T_NL, Sp(32), T_NL, Sp(32), Txt(12), T_GT, T_NL,
       Sp(36), Txt(13), T_GT, Txt(9), W("${CLICK_URL}"), Txt(2), T_GT, Txt(14),
       T_GT, T_NL, Sp(36), Txt(14), T_GT, Txt(32), W(".com"), Txt(14), T_GT,
       Txt(15), T_GT, T_NL, Sp(32), Txt(13), T_GT, T_NL, Sp(28), Txt(8), T_GT,
       T_NL, Sp(24), Txt(10), T_GT, T_NL, Sp(24), T_NL, Sp(24), Txt(4), Sp(1),
       Txt(7), Sp(1), Txt(6), Sp(1), Txt(9), Sp(1), Txt(2), Sp(1), Txt(2),
       T_GT, T_NL, Sp(24), W("<Creative"), Sp(1), Txt(3), T_QUOTE, Txt(14),
       T_QUOTE, Sp(1), Txt(9), T_QUOTE, Txt(1), T_QUOTE, T_GT, T_NL, Sp(28),
       Txt(13), T_GT, T_NL, Sp(32), Txt(10), Sp(1), Txt(6), T_QUOTE, Txt(3),
       T_QUOTE, Sp(1), Txt(7), T_QUOTE, Txt(2), T_QUOTE, Sp(1), Txt(3),
       T_QUOTE, Txt(21), T_QUOTE, T_GT, T_NL, Sp(36), Txt(15), Sp(1), Txt(13),
       T_QUOTE, Txt(9), T_QUOTE, T_GT, T_NL, Sp(40), Txt(9), T_NL, Sp(40),
       Txt(4), Sp(1), Txt(6), T_QUOTE, Txt(6), Sp(1), Txt(6), Sp(1), Txt(7),
       Sp(1), Txt(5), Sp(1), Txt(11), Sp(1), Txt(22), Sp(1), Txt(8), Sp(1),
       Txt(9), Sp(1), Txt(8), Sp(1), Txt(5), Sp(1), Txt(12), Sp(1), Txt(7),
       Sp(1), Txt(16), Sp(1), Txt(7), Sp(1), Txt(6), Sp(1), Txt(6), Sp(1),
       Txt(12), Sp(1), Txt(6), Sp(1), Txt(11), Sp(1), Txt(7), Sp(1), Txt(8),
       T_QUOTE, Sp(1), Txt(8), T_QUOTE, Txt(13), W("${CLICK_URL}"), Txt(2),
       Sp(1), Txt(10), T_QUOTE, T_GT, T_NL, Sp(44), Txt(4), Sp(1), Txt(6),
       T_QUOTE, Txt(11), Sp(1), Txt(7), T_QUOTE, T_GT, T_NL, Sp(48), Txt(4),
       Sp(1), Txt(6), T_QUOTE, Txt(10), Sp(1), Txt(5), Sp(1), Txt(12), Sp(1),
       Txt(5), T_QUOTE, T_GT, Txt(7), Sp(1), Txt(10), T_GT, T_NL, Sp(48),
       Txt(4), Sp(1), Txt(6), T_QUOTE, Txt(10), Sp(1), Txt(4), T_QUOTE, T_GT,
       Txt(8), Sp(1), Txt(9), T_GT, T_NL, Sp(44), Txt(5), T_GT, T_NL, Sp(40),
       Txt(5), T_GT, T_NL, Sp(40), Txt(2), T_GT, T_NL, Sp(36), Txt(16), T_GT,
       T_NL, Sp(36), Txt(22), T_GT, Txt(9), W("${CLICK_URL}"), Txt(2), T_GT,
       Txt(23), T_GT, T_NL, Sp(36), Txt(23), T_GT, Txt(32), W(".com"), Txt(24),
       T_GT, Txt(24), T_GT, T_NL, Sp(32), Txt(11), T_GT, T_NL, Sp(28), Txt(14),
       T_GT, T_NL, Sp(24), Txt(10), T_GT, T_NL, Sp(20), Txt(11), T_GT, T_NL,
       Sp(20), T_NL, Sp(20), Txt(11), T_GT, T_NL, Sp(24), Txt(10), Sp(1),
       Txt(5), T_QUOTE, Txt(5), T_QUOTE, T_GT, T_NL, Sp(28), Txt(10), T_GT,
       T_NL, Sp(32), Txt(7), T_GT, Txt(24), T_GT, T_NL, Sp(32), Txt(14), T_GT,
       Txt(19), T_GT, T_NL, Sp(32), Txt(20), T_GT, Txt(25), T_GT, T_NL, Sp(32),
       W("<Creative"), Txt(2), T_GT, Txt(17), T_GT, T_NL, Sp(28), Txt(11),
       T_GT, T_NL, Sp(24), Txt(11), T_GT, T_NL, Sp(20), Txt(12), T_GT, T_NL,
       Sp(16), Txt(8), T_GT, T_NL, Sp(12), Txt(4), T_GT, T_NL, Sp(8), Txt(6),
       T_GT, T_NL, Sp(8) >>

test_snippet ==
    << Txt(4), Sp(1), Txt(21), T_GT, Txt(4), Sp(1), Txt(8), Sp(1), Txt(3),
       Sp(1), Txt(16), T_GT >>

(***************************************************************************)
(* CreativeProcessor._transform_snippet.                                   *)
(***************************************************************************)
\* lines 517-530: the wrap functions that run for (format, phase), in order
\* the dispatch with the phases of the VAST wraps exchanged
dispatch_phases_swapped(format, phase) ==
    IF format = RUNWAY
    THEN IF phase = PHASE_1 THEN <<"wrap_display_html5_phase1">>
         ELSE <<"wrap_display_html5_phase2">>
    ELSE IF format \in {INSTREAM_VIDEO, ENHANCED_PREROLL}
    THEN IF phase = PHASE_1 THEN <<"wrap_vast_phase2">>
         ELSE <<"wrap_vast_phase1">>
    ELSE <<>>

dispatch(format, phase) ==
    IF format = RUNWAY
    THEN IF phase = PHASE_1 THEN <<"wrap_display_html5_phase1">>
         ELSE <<"wrap_display_html5_phase2">>
    ELSE IF format \in {INSTREAM_VIDEO, ENHANCED_PREROLL}
    THEN IF phase = PHASE_1 THEN <<"wrap_vast_phase1">>
         ELSE <<"wrap_vast_phase2">>
    ELSE <<>>

\* the call of one wrap function
Wrap(wrapper, code, config) ==
    CASE wrapper = "wrap_display_html5_phase1" -> wrap_display_html5_phase1(code, config)
      [] wrapper = "wrap_display_html5_phase2" -> wrap_display_html5_phase2(code, config)
      [] wrapper = "wrap_vast_phase1" -> wrap_vast_phase1(code, config)
      [] wrapper = "wrap_vast_phase2" -> wrap_vast_phase2(code, config)

RECURSIVE WrapAll(_, _, _)
WrapAll(wrappers, code, config) ==
    IF wrappers = <<>> THEN code
    ELSE WrapAll(Tail(wrappers), Wrap(Head(wrappers), code, config), config)

IsVideo(format) == format \in {INSTREAM_VIDEO, ENHANCED_PREROLL}

\* the final validation run as _validate_config runs it, on the empty
\* code instead of processed_code
FinalValidation_on_empty_code(original_code, config, tags_removed, raises, processed_code) ==
    [raises |-> raises,
     wrappers |-> dispatch(config.format, config.viewability_config.phase),
     processed_code |-> processed_code,
     metadata |->
        [original_snippet_size |-> Size(original_code),
         processed_snippet_size |-> Size(processed_code),
         tags_removed |-> tags_removed,
         tags_added |->
            <<"amazon_macros">>
            \o (IF config.cache_buster THEN <<"cache_buster">> ELSE <<>>)
            \o (IF config.format = RUNWAY THEN <<"amazon_dsp_wrapper">>
                ELSE IF IsVideo(config.format) THEN <<"vast_wrapper">> ELSE <<>>),
         warnings |->
            (IF IsVideo(config.format) THEN validate_vast_structure(<<>>) ELSE <<>>)
            \o validate_phase_configuration(config.viewability_config.phase,
                                            config.viewability_config.vendors, <<>>),
         phase_applied |-> config.viewability_config.phase]]

\* _transform_snippet from "Final validation" on: the warnings of the
\* validators on processed_code, and the ProcessingMetadata
FinalValidation(original_code, config, tags_removed, raises, processed_code) ==
    [raises |-> raises,
     wrappers |-> dispatch(config.format, config.viewability_config.phase),
     processed_code |-> processed_code,
     metadata |->
        [original_snippet_size |-> Size(original_code),
         processed_snippet_size |-> Size(processed_code),
         tags_removed |-> tags_removed,
         tags_added |->
            <<"amazon_macros">>
            \o (IF config.cache_buster THEN <<"cache_buster">> ELSE <<>>)
            \o (IF config.format = RUNWAY THEN <<"amazon_dsp_wrapper">>
                ELSE IF IsVideo(config.format) THEN <<"vast_wrapper">> ELSE <<>>),
         warnings |->
            (IF IsVideo(config.format) THEN validate_vast_structure(processed_code)
             ELSE <<>>)
            \o validate_phase_configuration(config.viewability_config.phase,
                                            config.viewability_config.vendors,
                                            processed_code),
         phase_applied |-> config.viewability_config.phase]]

\* _transform_snippet from "Inject Amazon macros" on: macros, cache buster
\* and the wrap function of the format and phase
ApplyWrapping(original_code, config, cleaned, tags_removed, raises) ==
    FinalValidation(
        original_code, config, tags_removed, raises,
        IF raises THEN <<>>
        ELSE WrapAll(dispatch(config.format, config.viewability_config.phase),
                     IF config.cache_buster
                     THEN inject_cache_buster(inject_amazon_macros(cleaned),
                                              generate_cache_buster)
                     ELSE inject_amazon_macros(cleaned),
                     config))

\* an IAS handling that strips the tags in either phase
HandleIAS_in_every_phase(original_code, phase) ==
    remove_ias_tags(original_code)

\* the IAS handling of the phase: (processed_code, removed_ias_tags)
HandleIAS(original_code, phase) ==
    IF phase = PHASE_1 THEN remove_ias_tags(original_code)
    ELSE [cleaned_code |-> original_code, removed_tags |-> <<>>]

\* the processed code and the ProcessingMetadata, or the exception raised
RemoveAndWrap(original_code, config, ias) ==
    ApplyWrapping(original_code, config, ias.cleaned_code, ias.removed_tags,
                  IsVideo(config.format) /\ wrap_vast_raises(config))

transform_snippet(snippet_code, config) ==
    RemoveAndWrap(snippet_code, config,
                  HandleIAS(snippet_code, config.viewability_config.phase))

\* CreativeProcessor._get_amazon_creative_type
get_amazon_creative_type(format) ==
    IF format = RUNWAY THEN "CUSTOM_HTML"
    ELSE IF format = INSTREAM_VIDEO THEN "VAST_3_0"
    ELSE IF format = ENHANCED_PREROLL THEN "VAST_3_0"
    ELSE "CUSTOM_HTML"

(***************************************************************************)
(* str.lower().                                                            *)
(***************************************************************************)
UPPERCASE ==
    <<"A", "B", "C", "D", "E", "F", "G", "H", "I", "J", "K", "L", "M", "N",
      "O", "P", "Q", "R", "S", "T", "U", "V", "W", "X", "Y", "Z">>
LOWERCASE ==
    <<"a", "b", "c", "d", "e", "f", "g", "h", "i", "j", "k", "l", "m", "n",
      "o", "p", "q", "r", "s", "t", "u", "v", "w", "x", "y", "z">>

LowerChar(c) ==
    IF \E i \in 1..Len(UPPERCASE) : UPPERCASE[i] = c
    THEN LOWERCASE[CHOOSE i \in 1..Len(UPPERCASE) : UPPERCASE[i] = c]
    ELSE c

Lower(s) == [i \in 1..Len(s) |-> LowerChar(s[i])]

(***************************************************************************)
(* app/services/kargo_client.py: MockKargoClient.                          *)
(***************************************************************************)
\* the keys of MockKargoClient._mock_snippets
ID_81298 == <<"8", "1", "2", "9", "8">>
ID_81172 == <<"8", "1", "1", "7", "2">>
ID_12345 == <<"1", "2", "3", "4", "5">>

mock_snippets ==
    [id \in {ID_81298, ID_81172, ID_12345} |->
        IF id = ID_81298 THEN runway_snippet
        ELSE IF id = ID_81172 THEN vast_snippet
        ELSE test_snippet]

\* MockKargoClient._extract_snippet_id
extract_snippet_id(snippet_url) ==
    LET path_parts == Split(StripSlashes(urlparse(snippet_url).path), "/")
    IN  IF /\ Len(path_parts) >= 3
           /\ path_parts[1] = <<"s", "n", "i", "p", "p", "e", "t">>
           /\ path_parts[2] = <<"d", "m">>
        THEN path_parts[3]
        ELSE path_parts[Len(path_parts)]

(***************************************************************************)
(* The arguments of CreativeConfig(...) that the requests of this model    *)
(* submit.                                                                 *)
(***************************************************************************)
\* "https://snippet.kargo.com/snippet/dm/"
SNIPPET_BASE ==
    <<"h", "t", "t", "p", "s", ":", "/", "/", "s", "n", "i", "p", "p", "e",
      "t", ".", "k", "a", "r", "g", "o", ".", "c", "o", "m", "/", "s", "n",
      "i", "p", "p", "e", "t", "/", "d", "m", "/">>

URL_81298 == SNIPPET_BASE \o ID_81298
URL_81172 == SNIPPET_BASE \o ID_81172
URL_12345 == SNIPPET_BASE \o ID_12345
\* a snippet the provider does not have
URL_UNKNOWN == SNIPPET_BASE \o <<"9", "9", "9", "9", "9">>
\* "https://invalid-domain.com/snippet" (test_invalid_snippet_url)
URL_INVALID_DOMAIN ==
    <<"h", "t", "t", "p", "s", ":", "/", "/", "i", "n", "v", "a", "l", "i",
      "d", "-", "d", "o", "m", "a", "i", "n", ".", "c", "o", "m", "/", "s",
      "n", "i", "p", "p", "e", "t">>
\* no scheme: "snippet.kargo.com/snippet/dm/12345"
URL_NO_SCHEME == SNIPPET_HOST \o <<"/", "s", "n", "i", "p", "p", "e", "t", "/", "d", "m", "/">> \o ID_12345

NAME_BANNER == <<"b", "a", "n", "n", "e", "r">>

DIM_320x50 == <<"3", "2", "0", "x", "5", "0">>
\* a companion size of the video formats, not a size of the runway format
DIM_300x50 == <<"3", "0", "0", "x", "5", "0">>
\* not positive
DIM_0x50 == <<"0", "x", "5", "0">>
DIM_320xMINUS5 == <<"3", "2", "0", "x", "-", "5">>
\* malformed
DIM_320 == <<"3", "2", "0">>
DIM_3x2x1 == <<"3", "x", "2", "x", "1">>

\* ViewabilityConfig objects (EXAMPLE_RUNWAY_CONFIG, EXAMPLE_VIDEO_CONFIG)
VC_PHASE_1 ==
    [phase |-> PHASE_1, vendors |-> <<DOUBLE_VERIFY>>, method |-> "platform_native",
     dsp_seat_id |-> None, pub_id |-> None]
VC_PHASE_2 ==
    [phase |-> PHASE_2, vendors |-> <<IAS, DOUBLE_VERIFY>>, method |-> "s2s_plus_wrapped",
     dsp_seat_id |-> "KARGO_DSP_SEAT_001", pub_id |-> "kargo_publisher_id"]

\* the keyword arguments of CreativeConfig(...); the other fields keep
\* their defaults
ConfigArgs(format, dimensions, snippet_url, duration, branded_canvas, cache_buster, viewability_config) ==
    [name |-> NAME_BANNER, format |-> format, dimensions |-> dimensions,
     snippet_url |-> snippet_url, device_type |-> MOBILE, duration |-> duration,
     branded_canvas |-> branded_canvas, cache_buster |-> cache_buster,
     viewability_config |-> viewability_config]

\* CreativeConfig.validate_dimensions: the pydantic validator of `dimensions`
config_validate_dimensions(v) ==
    LET parts == Split(v, "x")
    IN  Len(parts) = 2 /\ IsInt(parts[1]) /\ IsInt(parts[2])

\* the fields that fail when CreativeConfig(**args) is constructed
CreativeConfigErrors(args) ==
    (IF args.format \in CreativeFormat THEN {} ELSE {"format"})
    \cup (IF config_validate_dimensions(args.dimensions) THEN {} ELSE {"dimensions"})
    \cup (IF ViewabilityConfigErrors(args.viewability_config.phase,
                                     args.viewability_config.vendors,
                                     args.viewability_config.method) = {}
          THEN {} ELSE {"viewability_config"})

\* the configurations of concurrent requests: a display and a video
\* creative, a snippet the provider does not have, a URL of another host,
\* and dimensions CreativeConfig does not accept
ConfigInputs == {
    ConfigArgs(RUNWAY, DIM_320x50, URL_12345, <<>>, FALSE, TRUE, VC_PHASE_1),
    ConfigArgs(ENHANCED_PREROLL, DIM_320x50, URL_12345, <<15>>, FALSE, TRUE, VC_PHASE_2),
    ConfigArgs(RUNWAY, DIM_320x50, URL_UNKNOWN, <<>>, FALSE, TRUE, VC_PHASE_1),
    ConfigArgs(RUNWAY, DIM_320x50, URL_INVALID_DOMAIN, <<>>, FALSE, TRUE, VC_PHASE_1),
    ConfigArgs(RUNWAY, DIM_320, URL_12345, <<>>, FALSE, TRUE, VC_PHASE_1) }

\* the configurations of a single request
FormatInputs == CreativeFormat
DimensionInputs ==
    {DIM_320x50, DIM_300x50, DIM_0x50, DIM_320xMINUS5, DIM_320, DIM_3x2x1}
UrlInputs ==
    {URL_81298, URL_81172, URL_12345, URL_UNKNOWN, URL_INVALID_DOMAIN, URL_NO_SCHEME}
DurationInputs == {<<>>, <<15>>}

AllConfigInputs ==
    {ConfigArgs(f, d, u, dur, bc, cb, v) :
        f \in FormatInputs, d \in DimensionInputs, u \in UrlInputs,
        dur \in DurationInputs, bc \in BOOLEAN, cb \in BOOLEAN,
        v \in {VC_PHASE_1, VC_PHASE_2}}

(***************************************************************************)
(* Calls of the VAST wrappers on a video configuration with any duration   *)
(* up to MaxDuration seconds, or none.  The result is the document and the *)
(* text of its Duration element, or the TypeError of the format.           *)
(***************************************************************************)
WrapVastFunctions == {"wrap_vast_phase1", "wrap_vast_phase2"}

WrapDurationInputs == {<<>>} \cup {<<d>> : d \in 0 .. MaxDuration}

WrapConfigInputs ==
    {ConfigArgs(ENHANCED_PREROLL, DIM_320x50, URL_81172, dur, bc, TRUE, VC_PHASE_2) :
        dur \in WrapDurationInputs, bc \in BOOLEAN}

\* a caller invokes SnippetTransformer.wrap_vast_phase1("", config) or
\* wrap_vast_phase2("", config)
TxCallWrapVast ==
    /\ tx.state = "idle"
    /\ \E fn \in WrapVastFunctions, config \in WrapConfigInputs :
          tx' = [tx EXCEPT !.state = "called", !.fn = fn, !.input = config]
    /\ UNCHANGED <<vc, pvars>>

TxReturnWrapVast ==
    /\ tx.state = "called"
    /\ tx.fn \in WrapVastFunctions
    /\ tx' = [tx EXCEPT
                !.state = "returned",
                !.result =
                    IF wrap_vast_raises(tx.input)
                    THEN [raises |-> "TypeError", code |-> <<>>, duration |-> <<>>]
                    ELSE [raises |-> None,
                          code |-> Wrap(tx.fn, <<>>, tx.input),
                          duration |-> Duration(tx.input)]]
    /\ UNCHANGED <<vc, pvars>>

NextWrap ==
    \/ TxCallWrapVast
    \/ TxReturnWrapVast

SpecWrap == InitTx /\ [][NextWrap]_vars

(***************************************************************************)
(* SnippetTransformer.generate_cache_buster in a process run.  tx.input is *)
(* the reading of time.time(): the millisecond, and whether its first or   *)
(* its second half has been reached; tx.result are the calls so far, each  *)
(* with the reading it saw and the token it returned.                      *)
(***************************************************************************)
\* int(time.time() * 1000)
int_millis(reading) == reading.ms

\* generate_cache_buster at a reading of the clock
cache_buster_at(reading) == Str(int_millis(reading))

InitClock ==
    /\ vc = VCIdle
    /\ tx = [state |-> "idle", fn |-> "generate_cache_buster",
             input |-> [ms |-> 0, late |-> FALSE], result |-> <<>>]
    /\ PipelineIdle

\* time passes
ClockTick ==
    /\ tx.input.ms < MaxMillis
    /\ tx' = [tx EXCEPT !.input = IF tx.input.late
                                  THEN [ms |-> tx.input.ms + 1, late |-> FALSE]
                                  ELSE [ms |-> tx.input.ms, late |-> TRUE]]
    /\ UNCHANGED <<vc, pvars>>

\* a call of generate_cache_buster()
GenerateCacheBuster ==
    /\ Len(tx.result) < MaxCalls
    /\ tx' = [tx EXCEPT !.state = "returned",
                        !.result = Append(@, [at |-> tx.input,
                                              token |-> cache_buster_at(tx.input)])]
    /\ UNCHANGED <<vc, pvars>>

NextClock ==
    \/ ClockTick
    \/ GenerateCacheBuster

SpecClock == InitClock /\ [][NextClock]_vars

(***************************************************************************)
(* SnippetTransformer.inject_amazon_macros on the text of the markup.  A   *)
(* text is the sequence of its pieces: "$", "{", "}", the names of the     *)
(* macros, the prefix "AMAZON_", the suffix "_CONSENT" that makes          *)
(* GDPR_CONSENT of GDPR, and "x" for any other character.  No piece but    *)
(* "$", "{" and "}" holds one of these three characters, so a placeholder  *)
(* occurs in a text exactly where its pieces occur.                        *)
(***************************************************************************)
Generic(name) == <<"$", "{">> \o name \o <<"}">>
Amazon(name) == <<"$", "{", "AMAZON_">> \o name \o <<"}">>

MacroNames == <<
    <<"CLICK_URL">>, <<"IMPRESSION_URL">>, <<"CAMPAIGN_ID">>, <<"CREATIVE_ID">>,
    <<"PLACEMENT_ID">>, <<"SITE_ID">>, <<"CACHEBUSTER">>, <<"GDPR">>,
    <<"GDPR", "_CONSENT">> >>

\* SnippetTransformer.AMAZON_MACROS.items(), as texts
AmazonMacroItems == [m \in 1 .. Len(MacroNames) |-> <<Generic(MacroNames[m]), Amazon(MacroNames[m])>>]

\* a replace that stops after the first occurrence
RECURSIVE str_replace_first(_, _, _)
str_replace_first(s, old, new) ==
    IF Len(s) < Len(old) THEN s
    ELSE IF StartsWith(s, old) THEN new \o SubSeq(s, Len(old) + 1, Len(s))
    ELSE <<Head(s)>> \o str_replace_first(Tail(s), old, new)

\* str.replace(old, new): the occurrences of old from left to right, none
\* overlapping the one before
RECURSIVE str_replace(_, _, _)
str_replace(s, old, new) ==
    IF Len(s) < Len(old) THEN s
    ELSE IF StartsWith(s, old)
         THEN new \o str_replace(SubSeq(s, Len(old) + 1, Len(s)), old, new)
         ELSE <<Head(s)>> \o str_replace(Tail(s), old, new)

RECURSIVE InjectTextLoop(_, _)
InjectTextLoop(code, m) ==
    IF m > Len(AmazonMacroItems) THEN code
    ELSE InjectTextLoop(str_replace(code, AmazonMacroItems[m][1], AmazonMacroItems[m][2]),
                        m + 1)

\* inject_amazon_macros on a text
inject_amazon_macros_text(snippet_code) == InjectTextLoop(snippet_code, 1)

\* the fragments the argument is put together from
MacroFragments == {
    <<"$", "{">>, <<"}">>, <<"CLICK_URL">>, <<"GDPR">>, <<"_CONSENT">>, <<"AMAZON_">>,
    <<"x">>, Generic(<<"CLICK_URL">>), Generic(<<"GDPR">>) }

MacroMarkupInputs == {Concat(fs) : fs \in SeqUpTo(MacroFragments, MaxFrags)}

\* a caller invokes SnippetTransformer.inject_amazon_macros(markup)
TxCallInjectAmazonMacros ==
    /\ tx.state = "idle"
    /\ \E markup \in MacroMarkupInputs :
          tx' = [tx EXCEPT !.state = "called", !.fn = "inject_amazon_macros",
                           !.input = markup]
    /\ UNCHANGED <<vc, pvars>>

TxReturnInjectAmazonMacros ==
    /\ tx.state = "called"
    /\ tx.fn = "inject_amazon_macros"
    /\ tx' = [tx EXCEPT !.state = "returned",
                        !.result = inject_amazon_macros_text(tx.input)]
    /\ UNCHANGED <<vc, pvars>>

InitMacro ==
    /\ vc = VCIdle
    /\ tx = [state |-> "idle", fn |-> None, input |-> <<>>, result |-> <<>>]
    /\ PipelineIdle

NextMacro ==
    \/ TxCallInjectAmazonMacros
    \/ TxReturnInjectAmazonMacros

SpecMacro == InitMacro /\ [][NextMacro]_vars
(***************************************************************************)
(* CreativeValidator.validate_phase_configuration called on its own, with  *)
(* any phase, any vendors list and markup that carries IAS and DV tags.    *)
(***************************************************************************)
T_DV == Tok("doubleverify", 12)

AuditFragments == {
    <<T_IMG, T_SP, T_ADSAFE, T_GT>>, <<T_PIXEL, T_ADSAFE, T_COM>>,
    <<T_IMG, T_SP, T_DV, T_GT>>, <<T_TXT>> }

AuditMarkupInputs == {Concat(fs) : fs \in SeqUpTo(AuditFragments, MaxFrags)}

\* a caller invokes validate_phase_configuration(phase, vendors, creative_code)
TxCallValidatePhaseConfiguration ==
    /\ tx.state = "idle"
    /\ \E phase \in ViewabilityPhase, vendors \in VendorInputs, markup \in AuditMarkupInputs :
          tx' = [tx EXCEPT !.state = "called", !.fn = "validate_phase_configuration",
                           !.input = [phase |-> phase, vendors |-> vendors,
                                      creative_code |-> markup]]
    /\ UNCHANGED <<vc, pvars>>

TxReturnValidatePhaseConfiguration ==
    /\ tx.state = "called"
    /\ tx.fn = "validate_phase_configuration"
    /\ tx' = [tx EXCEPT !.state = "returned",
                        !.result = validate_phase_configuration(
                                       tx.input.phase, tx.input.vendors,
                                       tx.input.creative_code)]
    /\ UNCHANGED <<vc, pvars>>

NextAudit ==
    \/ TxCallValidatePhaseConfiguration
    \/ TxReturnValidatePhaseConfiguration

SpecAudit == InitMacro /\ [][NextAudit]_vars





(***************************************************************************)
(* The snippet provider.  get_snippet is decorated with                    *)
(* kargo_api_retry_async: retry_async re-runs the body after a transient   *)
(* exception or a RetryableHTTPError whose status is retriable, until      *)
(* max_attempts bodies have run.                                           *)
(***************************************************************************)
KARGO_MAX_ATTEMPTS == 2

RETRIABLE_STATUS_CODES == {429, 500, 502, 503, 504}

\* what one execution of the body of get_snippet can produce
Ok(code) == [kind |-> "ok", code |-> code, status |-> 200]
HttpError(status) == [kind |-> "http", code |-> <<>>, status |-> status]
Transient == [kind |-> "transient", code |-> <<>>, status |-> 0]

\* MockKargoClient.get_snippet: the three snippets of the mock, 404 otherwise
MockOutcomes(snippet_url) ==
    LET snippet_id == extract_snippet_id(snippet_url)
    IN  IF snippet_id \in DOMAIN mock_snippets
        THEN {Ok(mock_snippets[snippet_id])}
        ELSE {HttpError(404)}

\* the markup a remote provider serves
RemoteSnippets == {runway_snippet, vast_snippet}

\* RealKargoClient.get_snippet: the response of the provider, an HTTP
\* error status, or a transport failure of httpx
RealOutcomes(snippet_url) ==
    {Ok(code) : code \in RemoteSnippets} \cup {HttpError(404), HttpError(503), Transient}

BodyOutcomes(client, snippet_url) ==
    IF client = "mock" THEN MockOutcomes(snippet_url) ELSE RealOutcomes(snippet_url)

\* should_retry_http_error
should_retry_http_error(o) ==
    \/ o.kind = "transient"
    \/ o.kind = "http" /\ o.status \in RETRIABLE_STATUS_CODES

\* retry_async with the last attempt not recognised
retry_async_one_more(o, attempts, max_attempts) ==
    should_retry_http_error(o) /\ attempts <= max_attempts

\* retry_async that retries a RetryableHTTPError of any status
retry_async_any_status(o, attempts, max_attempts) ==
    o.kind \in {"transient", "http"} /\ attempts < max_attempts

\* retry_async: after `attempts` bodies have run and the last one raised,
\* is there another attempt?
retry_async(o, attempts, max_attempts) ==
    should_retry_http_error(o) /\ attempts < max_attempts

ErrorOf(o) ==
    IF o.kind = "transient" THEN "ConnectError"
    ELSE IF o.status = 404 THEN "RetryableHTTPError(404)"
    ELSE "RetryableHTTPError(503)"

(***************************************************************************)
(* Requests.  reqs[r] is one call of process_creative: `fetches` counts    *)
(* the calls of kargo_client.get_snippet it made, `attempts` the bodies of *)
(* get_snippet that ran for it, `trace` the stages it completed,           *)
(* `wrappers` the wrap functions _transform_snippet ran, and `deleted`     *)
(* whether the row it stored has been deleted since.                       *)
(***************************************************************************)
Requests == 1 .. NumReq

\* str(uuid.uuid4())
CreativeIds == 1 .. MaxIds

ReqIdle ==
    [state |-> "idle", config |-> <<>>, fetches |-> 0, attempts |-> 0, trace |-> <<>>,
     wrappers |-> <<>>, pc |-> <<>>, error |-> None, deleted |-> FALSE]

Raise(req, error) == [req EXCEPT !.state = "failed", !.error = error, !.pc = <<>>]

\* ProcessedCreative(...) of process_creative
ProcessedCreative(creative_id, config, t) ==
    [creative_id |-> creative_id, name |-> config.name, format |-> config.format,
     original_snippet_url |-> config.snippet_url, processed_code |-> t.processed_code,
     amazon_dsp_ready |-> TRUE,
     creative_type |-> get_amazon_creative_type(config.format),
     viewability_config |-> config.viewability_config,
     processing_metadata |-> t.metadata]

\* ProcessedCreativeDB(...) of _store_processed_creative, with the
\* created_at the INSERT sets; `request` records the request that added
\* the row
ProcessedCreativeDB(creative, config, r, created_at) ==
    [creative_id |-> creative.creative_id, name |-> creative.name,
     format |-> creative.format, original_snippet_url |-> creative.original_snippet_url,
     processed_code |-> creative.processed_code,
     amazon_dsp_ready |-> creative.amazon_dsp_ready,
     creative_type |-> creative.creative_type, amazon_creative_id |-> <<>>,
     viewability_config |-> creative.viewability_config,
     processing_metadata |-> creative.processing_metadata, original_config |-> config,
     status |-> "processed", upload_status |-> None, created_at |-> created_at,
     request |-> r]

\* datetime.utcnow() at the INSERT: the created_at of the latest stored row,
\* when the clock has not ticked since, or the next value
Timestamps(rows) ==
    IF rows = {} THEN {1}
    ELSE LET latest == Max({row.created_at : row \in rows})
         IN  {t \in {latest, latest + 1} : t <= MaxClock}

(***************************************************************************)
(* CreativeProcessor.process_creative.  The coroutine is suspended while   *)
(* get_snippet awaits the provider and while the session flushes; the code *)
(* between two suspensions is one step.                                    *)
(***************************************************************************)
\* a caller constructs CreativeConfig(**args) and awaits process_creative
SubmitFrom(r, inputs) ==
    /\ reqs[r].state = "idle"
    /\ \E args \in inputs :
         reqs' = [reqs EXCEPT ![r] =
                    IF CreativeConfigErrors(args) # {}
                    THEN [ReqIdle EXCEPT !.state = "rejected", !.config = args,
                                         !.error = "pydantic.ValidationError"]
                    ELSE [ReqIdle EXCEPT !.state = "received", !.config = args,
                                         !.trace = <<"received">>]]
    /\ UNCHANGED <<kargo_client, store, dsp, cvars>>

Submit(r) == SubmitFrom(r, ConfigInputs)

\* _validate_config, then the call of kargo_client.get_snippet up to its
\* first suspension
ValidateConfig(r) ==
    /\ reqs[r].state = "received"
    /\ LET req == reqs[r]
           config == req.config
       IN  reqs' = [reqs EXCEPT ![r] =
                      IF ~ validate_snippet_url(config.snippet_url)
                      THEN Raise(req, "ValueError")
                      ELSE IF validate_creative_format_dimensions(
                                  config.format, config.dimensions).raises
                      THEN Raise(req, "ValidationError")
                      ELSE [req EXCEPT !.state = "fetching",
                                       !.trace = Append(@, "validated"),
                                       !.fetches = @ + 1, !.attempts = @ + 1]]
    /\ UNCHANGED <<kargo_client, store, dsp, cvars>>

\* a processor that keeps the configuration being processed in a field the
\* calls share: the call goes on with the configuration of the first call
\* that awaits the provider
FetchReturn_shared_config(r) ==
    /\ reqs[r].state = "fetching"
    /\ LET req == reqs[r]
           config == reqs[CHOOSE q \in Requests :
                             /\ reqs[q].state = "fetching"
                             /\ \A p \in Requests : reqs[p].state = "fetching" => q <= p].config
       IN  \E o \in BodyOutcomes(kargo_client, config.snippet_url) :
             IF o.kind = "ok"
             THEN \E t \in {transform_snippet(o.code, config)} :
                    IF t.raises
                    THEN reqs' = [reqs EXCEPT ![r] =
                                    Raise([req EXCEPT !.trace = Append(@, "fetched")],
                                          "TypeError")]
                    ELSE \E creative_id \in CreativeIds :
                           reqs' = [reqs EXCEPT ![r] =
                                      [req EXCEPT
                                         !.state = "flushing",
                                         !.trace = @ \o <<"fetched", "transformed",
                                                          "revalidated">>,
                                         !.wrappers = t.wrappers,
                                         !.pc = ProcessedCreative(creative_id, config, t)]]
             ELSE IF retry_async(o, req.attempts, KARGO_MAX_ATTEMPTS)
             THEN reqs' = [reqs EXCEPT ![r].attempts = @ + 1]
             ELSE reqs' = [reqs EXCEPT ![r] = Raise(req, ErrorOf(o))]
    /\ UNCHANGED <<kargo_client, store, dsp, cvars>>

\* one body of get_snippet ends: retry_async runs it again or lets the
\* exception through; with a response, process_creative goes on to
\* _transform_snippet, ProcessedCreative(...) and session.flush()
FetchReturn(r) ==
    /\ reqs[r].state = "fetching"
    /\ LET req == reqs[r]
           config == req.config
       IN  \E o \in BodyOutcomes(kargo_client, config.snippet_url) :
             IF o.kind = "ok"
             THEN \E t \in {transform_snippet(o.code, config)} :
                    IF t.raises
                    THEN reqs' = [reqs EXCEPT ![r] =
                                    Raise([req EXCEPT !.trace = Append(@, "fetched")],
                                          "TypeError")]
                    ELSE \E creative_id \in CreativeIds :
                           reqs' = [reqs EXCEPT ![r] =
                                      [req EXCEPT
                                         !.state = "flushing",
                                         !.trace = @ \o <<"fetched", "transformed",
                                                          "revalidated">>,
                                         !.wrappers = t.wrappers,
                                         !.pc = ProcessedCreative(creative_id, config, t)]]
             ELSE IF retry_async(o, req.attempts, KARGO_MAX_ATTEMPTS)
             THEN reqs' = [reqs EXCEPT ![r].attempts = @ + 1]
             ELSE reqs' = [reqs EXCEPT ![r] = Raise(req, ErrorOf(o))]
    /\ UNCHANGED <<kargo_client, store, dsp, cvars>>

\* what session.flush() does with the added row: the INSERT, a violation
\* of the unique constraint on creative_id, or a failure of the database
FlushOutcomes(creative) ==
    {IF \E row \in store : row.creative_id = creative.creative_id
     THEN "IntegrityError" ELSE "ok"} \cup {"OperationalError"}

\* a flush that leaves the added row in the store when it fails
FlushReturn_keeps_row(r) ==
    /\ reqs[r].state = "flushing"
    /\ LET req == reqs[r]
       IN  \E outcome \in FlushOutcomes(req.pc), created_at \in Timestamps(store) :
             /\ store' = store \cup {ProcessedCreativeDB(req.pc, req.config, r, created_at)}
             /\ IF outcome = "ok"
                THEN reqs' = [reqs EXCEPT ![r].state = "done",
                                         ![r].trace = Append(@, "persisted")]
                ELSE reqs' = [reqs EXCEPT ![r] = Raise(req, outcome)]
    /\ UNCHANGED <<kargo_client, dsp, cvars>>

\* session.flush() of _store_processed_creative ends; process_creative
\* returns the creative or lets the exception through
FlushReturn(r) ==
    /\ reqs[r].state = "flushing"
    /\ LET req == reqs[r]
       IN  \E outcome \in FlushOutcomes(req.pc), created_at \in Timestamps(store) :
             IF outcome = "ok"
             THEN /\ store' = store \cup {ProcessedCreativeDB(req.pc, req.config, r, created_at)}
                  /\ reqs' = [reqs EXCEPT ![r].state = "done",
                                          ![r].trace = Append(@, "persisted")]
             ELSE /\ store' = store
                  /\ reqs' = [reqs EXCEPT ![r] = Raise(req, outcome)]
    /\ UNCHANGED <<kargo_client, dsp, cvars>>

(***************************************************************************)
(* Uploads.  dsp is MockAmazonDSPClient._creatives in the order of the     *)
(* uploads; `source` records the stored creative an entry was built for    *)
(* and `via` the function that built the upload request.                   *)
(***************************************************************************)
DISPLAY == <<"d", "i", "s", "p", "l", "a", "y">>
TEST == <<"t", "e", "s", "t">>

\* AmazonCreativeUploadRequest(...)
AmazonCreativeUploadRequest(name, format, creative_code, width, height) ==
    [name |-> name, format |-> format, creative_code |-> creative_code,
     width |-> width, height |-> height]

\* the request built by upload_to_amazon_dsp
upload_request(creative) ==
    AmazonCreativeUploadRequest(creative.name, creative.creative_type,
                                creative.processed_code, 320, 50)

\* the request built by batch_upload_to_amazon
batch_upload_request(creative) ==
    AmazonCreativeUploadRequest(
        creative.name,
        IF Contains(Lower(creative.format), DISPLAY) THEN "CUSTOM_HTML" ELSE "VAST_3_0",
        creative.processed_code, 300, 250)

\* MockAmazonDSPClient.upload_creative: does it raise the HTTP 400?
upload_creative_raises(request) ==
    \/ Size(request.creative_code) < 50
    \/ request.width <= 0
    \/ request.height <= 0

\* MockAmazonDSPClient.upload_creative: creative_data
upload_creative(request, creative_id, source, via) ==
    [creative_id |-> creative_id, format |-> request.format,
     status |-> IF Contains(Lower(request.name), TEST) \/ request.format = "CUSTOM_HTML"
                THEN "APPROVED" ELSE "PENDING",
     width |-> request.width, height |-> request.height,
     source |-> source, via |-> via]

\* the rows of `creatives` in an order the SELECT can return them
Orderings(S) ==
    {order \in [1 .. Cardinality(S) -> S] :
        \A i, j \in 1 .. Cardinality(S) : i # j => order[i] # order[j]}

\* MockAmazonDSPClient.batch_upload_creatives: the responses, in order
RECURSIVE batch_upload_creatives(_, _, _)
batch_upload_creatives(creatives, i, n) ==
    IF i > Len(creatives) THEN <<>>
    ELSE LET request == batch_upload_request(creatives[i])
         IN  IF upload_creative_raises(request)
             THEN batch_upload_creatives(creatives, i + 1, n)
             ELSE <<upload_creative(request, n + 1, creatives[i].creative_id,
                                    "batch_upload_to_amazon")>>
                  \o batch_upload_creatives(creatives, i + 1, n + 1)

\* a call of a store or API operation returns `value`, or raises
Returns(op, arg, value) == [op |-> op, arg |-> arg, result |-> [raises |-> None, value |-> value]]
Raises(op, arg, error) == [op |-> op, arg |-> arg, result |-> [raises |-> error, value |-> <<>>]]

\* an update that also marks the row as uploaded in its status column
set_upload_result_and_status(db_creative, upload_response) ==
    [db_creative EXCEPT !.amazon_creative_id = <<upload_response.creative_id>>,
                        !.upload_status = upload_response.status,
                        !.status = "uploaded"]

\* upload_to_amazon_dsp: the update of the row with the upload response
set_upload_result(db_creative, upload_response) ==
    [db_creative EXCEPT !.amazon_creative_id = <<upload_response.creative_id>>,
                        !.upload_status = upload_response.status]

\* CreativeProcessor.upload_to_amazon_dsp(creative_id, advertiser_id)
UploadToAmazonDsp(creative_id) ==
    /\ api.op = None
    /\ Len(dsp) < MaxUploads
    /\ LET found == {row \in store : row.creative_id = creative_id}
       IN  IF found = {}
           THEN /\ api' = Raises("upload_to_amazon_dsp", <<creative_id>>, "ValueError")
                /\ UNCHANGED <<dsp, store>>
           ELSE \E creative \in found :
                  LET request == upload_request(creative)
                      upload_response == upload_creative(request, Len(dsp) + 1,
                                                         creative.creative_id,
                                                         "upload_to_amazon_dsp")
                  IN  IF upload_creative_raises(request)
                      THEN /\ api' = Raises("upload_to_amazon_dsp", <<creative_id>>,
                                            "RetryableHTTPError(400)")
                           /\ UNCHANGED <<dsp, store>>
                      ELSE /\ dsp' = Append(dsp, upload_response)
                           /\ store' = (store \ {creative}) \cup
                                 {set_upload_result(creative, upload_response)}
                           /\ api' = Returns("upload_to_amazon_dsp", <<creative_id>>,
                                             <<upload_response.creative_id>>)
    /\ UNCHANGED <<kargo_client, reqs, vc, tx, mvars>>

\* batch_upload_to_amazon(creative_ids, advertiser_id): the upload requests,
\* the batch upload and the update of the rows, paired by zip
BatchUploadToAmazon ==
    /\ api.op = None
    /\ store # {}
    /\ \E creative_ids \in SUBSET {row.creative_id : row \in store} :
         /\ creative_ids # {}
         /\ Len(dsp) + Cardinality(creative_ids) <= MaxUploads
         /\ \E creatives \in Orderings({row \in store : row.creative_id \in creative_ids}) :
              LET upload_results == batch_upload_creatives(creatives, 1, Len(dsp))
                  updated(i) ==
                      IF i <= Len(upload_results)
                      THEN [creatives[i] EXCEPT
                              !.amazon_creative_id = <<upload_results[i].creative_id>>,
                              !.upload_status = upload_results[i].status]
                      ELSE creatives[i]
              IN  /\ dsp' = dsp \o upload_results
                  /\ store' = {row \in store : row.creative_id \notin creative_ids}
                                \cup {updated(i) : i \in 1 .. Len(creatives)}
    /\ UNCHANGED <<kargo_client, reqs, cvars>>

(***************************************************************************)
(* Concurrent requests.  get_kargo_client creates the client on its first  *)
(* call: create_kargo_client() with use_mock left at True.                 *)
(***************************************************************************)
Init ==
    /\ vc = VCIdle
    /\ tx = TxIdle
    /\ kargo_client = "mock"
    /\ reqs = [r \in Requests |-> ReqIdle]
    /\ store = {}
    /\ dsp = <<>>
    /\ api = ApiIdle
    /\ ServicesIdle

Next ==
    \/ \E r \in Requests : Submit(r)
    \/ \E r \in Requests : ValidateConfig(r)
    \/ \E r \in Requests : FetchReturn(r)
    \/ \E r \in Requests : FlushReturn(r)

Spec == Init /\ [][Next]_vars

(***************************************************************************)
(* One request, with every combination of the configuration inputs, and    *)
(* with either client behind get_kargo_client (_kargo_client is the global *)
(* a deployment sets to the client of create_kargo_client(use_mock=False)).*)
(***************************************************************************)
InitOne ==
    /\ vc = VCIdle
    /\ tx = TxIdle
    /\ kargo_client \in {"mock", "real"}
    /\ reqs = [r \in Requests |-> ReqIdle]
    /\ store = {}
    /\ dsp = <<>>
    /\ api = ApiIdle
    /\ ServicesIdle

SubmitAny == SubmitFrom(1, AllConfigInputs)

NextOne ==
    \/ SubmitAny
    \/ ValidateConfig(1)
    \/ FetchReturn(1)
    \/ FlushReturn(1)

SpecOne == InitOne /\ [][NextOne]_vars

(***************************************************************************)
(* The operations on stored creatives and the bulk endpoint.  A call is    *)
(* one step; api holds the call and its result until the caller has it.    *)
(***************************************************************************)
\* ProcessedCreative(...) of get_processed_creative and
\* list_processed_creatives
creative_of(db_creative) ==
    [creative_id |-> db_creative.creative_id, name |-> db_creative.name,
     format |-> db_creative.format,
     original_snippet_url |-> db_creative.original_snippet_url,
     processed_code |-> db_creative.processed_code,
     amazon_dsp_ready |-> db_creative.amazon_dsp_ready,
     creative_type |-> db_creative.creative_type,
     viewability_config |-> db_creative.viewability_config,
     processing_metadata |-> db_creative.processing_metadata,
     created_at |-> db_creative.created_at]

\* a lookup whose WHERE clause is dropped
get_processed_creative_any_row(rows, creative_id) ==
    IF rows = {} THEN <<>> ELSE <<creative_of(CHOOSE row \in rows : TRUE)>>

\* get_processed_creative: Optional[ProcessedCreative]
get_processed_creative(rows, creative_id) ==
    LET found == {row \in rows : row.creative_id = creative_id}
    IN  IF found = {} THEN <<>> ELSE <<creative_of(CHOOSE row \in found : TRUE)>>

\* the results ORDER BY created_at DESC can give: rows of one created_at
\* come in any order
OrderByCreatedAtDesc(rows) ==
    {order \in Orderings(rows) :
        \A i, j \in 1 .. Len(order) :
            i < j => order[i].created_at >= order[j].created_at}

\* list_processed_creatives: the pages the SELECT can return
list_processed_creatives(rows, skip, limit) ==
    {[i \in 1 .. Min({limit, Max({0, Len(order) - skip})}) |-> creative_of(order[skip + i])] :
        order \in OrderByCreatedAtDesc(rows)}

SkipInputs == 0 .. MaxIds
LimitInputs == 1 .. MaxIds

GetProcessedCreative(creative_id) ==
    /\ api.op = None
    /\ api' = Returns("get_processed_creative", <<creative_id>>,
                      get_processed_creative(store, creative_id))
    /\ UNCHANGED <<kargo_client, reqs, store, dsp, vc, tx, mvars>>

ListProcessedCreatives(skip, limit) ==
    /\ api.op = None
    /\ \E page \in list_processed_creatives(store, skip, limit) :
         api' = Returns("list_processed_creatives", <<skip, limit>>, page)
    /\ UNCHANGED <<kargo_client, reqs, store, dsp, vc, tx, mvars>>

\* delete_processed_creative: False for a missing row, else the DELETE
DeleteProcessedCreative(creative_id) ==
    /\ api.op = None
    /\ LET found == {row \in store : row.creative_id = creative_id}
       IN  /\ api' = Returns("delete_processed_creative", <<creative_id>>, found # {})
           /\ store' = store \ found
           /\ reqs' = [r \in Requests |->
                         IF \E row \in found : row.request = r
                         THEN [reqs[r] EXCEPT !.deleted = TRUE] ELSE reqs[r]]
    /\ UNCHANGED <<kargo_client, dsp, vc, tx, mvars>>

\* CreativeProcessor.__init__(self, db_session) and
\* process_creative(self, config): a call with another number of
\* arguments raises TypeError
init_raises(args) == Len(args) # 1
process_creative_raises(args) == Len(args) # 1

HTTPException(status_code) ==
    [status_code |-> status_code, total_processed |-> 0, successful |-> 0, failed |-> 0]

BulkProcessResponse(creative_configs, results, failed_items) ==
    [status_code |-> 200, total_processed |-> Len(creative_configs),
     successful |-> Len(results), failed |-> Len(failed_items)]

\* process_creatives_bulk: CreativeProcessor() is called without the
\* session and process_creative with the session as a second argument
process_creatives_bulk(creative_configs) ==
    IF init_raises(<<>>) THEN HTTPException(500)
    ELSE LET raises(config) == process_creative_raises(<<config, "session">>)
         IN  BulkProcessResponse(creative_configs,
                                 SelectSeq(creative_configs, LAMBDA config : ~ raises(config)),
                                 SelectSeq(creative_configs, raises))

\* the batches of the bulk endpoint: valid configurations and
\* configurations whose source URL is of another host or not one the
\* provider has
BulkConfigInputs == {
    ConfigArgs(RUNWAY, DIM_320x50, URL_12345, <<>>, FALSE, TRUE, VC_PHASE_1),
    ConfigArgs(RUNWAY, DIM_320x50, URL_UNKNOWN, <<>>, FALSE, TRUE, VC_PHASE_1),
    ConfigArgs(RUNWAY, DIM_320x50, URL_INVALID_DOMAIN, <<>>, FALSE, TRUE, VC_PHASE_1) }

BatchInputs == SeqUpTo(BulkConfigInputs, MaxBatch) \ {<<>>}

ProcessCreativesBulk ==
    /\ api.op = None
    /\ \E creative_configs \in BatchInputs :
         api' = Returns("process_creatives_bulk", creative_configs,
                        process_creatives_bulk(creative_configs))
    /\ UNCHANGED <<kargo_client, reqs, store, dsp, vc, tx, mvars>>

\* the caller has the result of the call
ApiReturn ==
    /\ api.op # None
    /\ api' = ApiIdle
    /\ UNCHANGED <<kargo_client, reqs, store, dsp, vc, tx, mvars>>

\* the configurations of the requests that fill the store
StoreConfigInputs == {
    ConfigArgs(RUNWAY, DIM_320x50, URL_12345, <<>>, FALSE, TRUE, VC_PHASE_1) }

InFlight(r) == reqs[r].state \in {"received", "fetching", "flushing"}

\* the r-th call of process_creative, made when no other call of it is
\* running
SubmitNext(r) ==
    /\ api.op = None
    /\ \A q \in Requests : ~ InFlight(q) /\ (q < r => reqs[q].state # "idle")
    /\ SubmitFrom(r, StoreConfigInputs)

\* a step of the running call of process_creative
Proceed(r) ==
    /\ api.op = None
    /\ \/ ValidateConfig(r)
       \/ FetchReturn(r)
       \/ FlushReturn(r)

\* process_creative and the operations on stored creatives
NextStore ==
    \/ \E r \in Requests : SubmitNext(r)
    \/ \E r \in Requests : Proceed(r)
    \/ \E creative_id \in CreativeIds : GetProcessedCreative(creative_id)
    \/ \E skip \in SkipInputs, limit \in LimitInputs : ListProcessedCreatives(skip, limit)
    \/ \E creative_id \in CreativeIds : DeleteProcessedCreative(creative_id)
    \/ ApiReturn

SpecStore == Init /\ [][NextStore]_vars

\* the same with the uploads to the DSP
NextApi ==
    \/ \E r \in Requests : SubmitNext(r)
    \/ \E r \in Requests : Proceed(r)
    \/ \E creative_id \in CreativeIds : GetProcessedCreative(creative_id)
    \/ \E skip \in SkipInputs, limit \in LimitInputs : ListProcessedCreatives(skip, limit)
    \/ \E creative_id \in CreativeIds : DeleteProcessedCreative(creative_id)
    \/ \E creative_id \in CreativeIds : UploadToAmazonDsp(creative_id)
    \/ BatchUploadToAmazon
    \/ ApiReturn

SpecApi == Init /\ [][NextApi]_vars

\* the bulk endpoint alone
NextBulk ==
    \/ ProcessCreativesBulk
    \/ ApiReturn

SpecBulk == Init /\ [][NextBulk]_vars
(***************************************************************************)
(* CampaignManager.  A row of campaigns holds the columns the lifecycle    *)
(* operations read or write.  An operation is one step in a session of its *)
(* own; api holds its outcome until the caller has it.                     *)
(***************************************************************************)
MaxAudit == 2        \* most rows of audit_logs

CampaignDB(status, order_id, creative_count, processed_creatives_count) ==
    [status |-> status, order_id |-> order_id, creative_count |-> creative_count,
     processed_creatives_count |-> processed_creatives_count]

AuditLogDB(entity_id, action) ==
    [entity_type |-> "campaign", entity_id |-> entity_id, action |-> action]

CampaignResponse(campaign_id, campaign_db) ==
    [campaign_id |-> campaign_id, status |-> campaign_db.status,
     amazon_order_id |-> campaign_db.order_id,
     creative_count |-> campaign_db.creative_count,
     processed_creatives_count |-> campaign_db.processed_creatives_count]

\* f"camp_{uuid4().hex[:12]}": an id that no row has
NewCampaignId == Cardinality(DOMAIN campaigns)

\* the id arguments of the operations: the ids of the rows and an unknown id
CampaignIdInputs == DOMAIN campaigns \cup {NewCampaignId}

\* the creative ids of a request
CreativeListInputs == SeqUpTo(CreativeIds, MaxIds)

\* request.status of update_campaign: unset, or any text
StatusInputs == {None, "active", "archived"}

\* rows that another writer of the table has left: order_id is nullable and
\* the counts are plain columns
LegacyCampaigns ==
    {CampaignDB(status, <<>>, count, count) : status \in {"draft", "active"}, count \in {0, 2}}

\* CampaignManager._validate_creatives: the rows of the ids, or the error
validate_creatives(rows, creative_ids) ==
    LET creatives == {row \in rows : row.creative_id \in Range(creative_ids)}
    IN  IF Cardinality(creatives) # Len(creative_ids)
        THEN [raises |-> "Creatives not found", creatives |-> {}]
        ELSE IF \E c \in creatives : c.status # "processed"
        THEN [raises |-> "Creatives not processed", creatives |-> {}]
        ELSE [raises |-> None, creatives |-> creatives]

\* activate_campaign that does not look at the count of processed creatives
activate_campaign_raises_order_only(campaign_db) ==
    IF campaign_db.order_id = <<>> THEN "Campaign not synced with Amazon DSP"
    ELSE None

\* activate_campaign, lines 385-390: the error of a campaign that is not ready
activate_campaign_raises(campaign_db) ==
    IF campaign_db.order_id = <<>> THEN "Campaign not synced with Amazon DSP"
    ELSE IF campaign_db.processed_creatives_count = 0
    THEN "No processed creatives available"
    ELSE None

\* delete_campaign that deletes a campaign in any status
delete_campaign_raises_never(campaign_db) == None

\* delete_campaign, lines 464-465
delete_campaign_raises(campaign_db) ==
    IF campaign_db.status = "active" THEN "Cannot delete active campaign. Please pause first."
    ELSE None

\* an operation starts when no other call is running
Quiet == api.op = None /\ \A q \in Requests : ~ InFlight(q)

\* db.add(audit_log) and db.commit() of a changed row
Commit(campaign_id, campaign_db, action) ==
    /\ Len(audit_logs) < MaxAudit
    /\ campaigns' = [campaigns EXCEPT ![campaign_id] = campaign_db]
    /\ audit_logs' = Append(audit_logs, AuditLogDB(campaign_id, action))

CreateCampaign(creatives) ==
    /\ Quiet
    /\ LET campaign_id == NewCampaignId
           validated == validate_creatives(store, creatives)
           campaign_db == CampaignDB("draft", <<campaign_id>>, Len(creatives),
                                     Cardinality(validated.creatives))
       IN  IF validated.raises # None
           THEN /\ api' = Raises("create_campaign", creatives, validated.raises)
                /\ UNCHANGED <<campaigns, associations, audit_logs>>
           ELSE /\ Len(audit_logs) < MaxAudit
                /\ campaigns' = [c \in DOMAIN campaigns \cup {campaign_id} |->
                                    IF c = campaign_id THEN campaign_db ELSE campaigns[c]]
                /\ associations' = associations
                      \cup {<<campaign_id, creative.creative_id>> : creative \in validated.creatives}
                /\ audit_logs' = Append(audit_logs, AuditLogDB(campaign_id, "created"))
                /\ api' = Returns("create_campaign", creatives,
                                  CampaignResponse(campaign_id, campaign_db))
    /\ UNCHANGED <<kargo_client, reqs, store, dsp, vc, tx, breaker, background_tasks>>

UpdateCampaign(campaign_id, status) ==
    /\ Quiet
    /\ IF campaign_id \notin DOMAIN campaigns
       THEN /\ api' = Raises("update_campaign", <<campaign_id, status>>, "Campaign not found")
            /\ UNCHANGED <<campaigns, audit_logs>>
       ELSE LET campaign_db == IF status # None
                               THEN [campaigns[campaign_id] EXCEPT !.status = status]
                               ELSE campaigns[campaign_id]
            IN  /\ Commit(campaign_id, campaign_db, "updated")
                /\ api' = Returns("update_campaign", <<campaign_id, status>>,
                                  CampaignResponse(campaign_id, campaign_db))
    /\ UNCHANGED <<kargo_client, reqs, store, dsp, vc, tx, associations, breaker, background_tasks>>

ActivateCampaign(campaign_id) ==
    /\ Quiet
    /\ IF campaign_id \notin DOMAIN campaigns
       THEN /\ api' = Raises("activate_campaign", <<campaign_id>>, "Campaign not found")
            /\ UNCHANGED <<campaigns, audit_logs>>
       ELSE LET campaign_db == campaigns[campaign_id]
            IN  IF campaign_db.status = "active"
                THEN /\ api' = Returns("activate_campaign", <<campaign_id>>,
                                       CampaignResponse(campaign_id, campaign_db))
                     /\ UNCHANGED <<campaigns, audit_logs>>
                ELSE IF activate_campaign_raises(campaign_db) # None
                THEN /\ api' = Raises("activate_campaign", <<campaign_id>>,
                                      activate_campaign_raises(campaign_db))
                     /\ UNCHANGED <<campaigns, audit_logs>>
                ELSE /\ Commit(campaign_id, [campaign_db EXCEPT !.status = "active"],
                               "activated")
                     /\ api' = Returns("activate_campaign", <<campaign_id>>,
                                       CampaignResponse(campaign_id,
                                           [campaign_db EXCEPT !.status = "active"]))
    /\ UNCHANGED <<kargo_client, reqs, store, dsp, vc, tx, associations, breaker, background_tasks>>

PauseCampaign(campaign_id) ==
    /\ Quiet
    /\ IF campaign_id \notin DOMAIN campaigns
       THEN /\ api' = Raises("pause_campaign", <<campaign_id>>, "Campaign not found")
            /\ UNCHANGED <<campaigns, audit_logs>>
       ELSE LET campaign_db == [campaigns[campaign_id] EXCEPT !.status = "paused"]
            IN  /\ Commit(campaign_id, campaign_db, "paused")
                /\ api' = Returns("pause_campaign", <<campaign_id>>,
                                  CampaignResponse(campaign_id, campaign_db))
    /\ UNCHANGED <<kargo_client, reqs, store, dsp, vc, tx, associations, breaker, background_tasks>>

DeleteCampaign(campaign_id) ==
    /\ Quiet
    /\ IF campaign_id \notin DOMAIN campaigns
       THEN /\ api' = Raises("delete_campaign", <<campaign_id>>, "Campaign not found")
            /\ UNCHANGED <<campaigns, audit_logs>>
       ELSE LET campaign_db == campaigns[campaign_id]
            IN  IF delete_campaign_raises(campaign_db) # None
                THEN /\ api' = Raises("delete_campaign", <<campaign_id>>,
                                      delete_campaign_raises(campaign_db))
                     /\ UNCHANGED <<campaigns, audit_logs>>
                ELSE /\ Commit(campaign_id, [campaign_db EXCEPT !.status = "deleted"],
                               "deleted")
                     /\ api' = Returns("delete_campaign", <<campaign_id>>,
                                       "deleted successfully")
    /\ UNCHANGED <<kargo_client, reqs, store, dsp, vc, tx, associations, breaker, background_tasks>>

AddCreativesToCampaign(campaign_id, creative_ids) ==
    /\ Quiet
    /\ IF campaign_id \notin DOMAIN campaigns
       THEN /\ api' = Raises("add_creatives_to_campaign", <<campaign_id, creative_ids>>,
                             "Campaign not found")
            /\ UNCHANGED <<campaigns, associations>>
       ELSE LET validated == validate_creatives(store, creative_ids)
                existing_creative_ids == {a[2] : a \in {b \in associations : b[1] = campaign_id}}
                new_creatives == {creative.creative_id : creative \in validated.creatives}
                                    \ existing_creative_ids
                campaign_db == [campaigns[campaign_id] EXCEPT
                                  !.creative_count = @ + Cardinality(new_creatives),
                                  !.processed_creatives_count = @ + Cardinality(new_creatives)]
            IN  IF validated.raises # None
                THEN /\ api' = Raises("add_creatives_to_campaign",
                                      <<campaign_id, creative_ids>>, validated.raises)
                     /\ UNCHANGED <<campaigns, associations>>
                ELSE /\ campaigns' = [campaigns EXCEPT ![campaign_id] = campaign_db]
                     /\ associations' = associations
                           \cup {<<campaign_id, c>> : c \in new_creatives}
                     /\ api' = Returns("add_creatives_to_campaign",
                                       <<campaign_id, creative_ids>>,
                                       CampaignResponse(campaign_id, campaign_db))
    /\ UNCHANGED <<kargo_client, reqs, store, dsp, vc, tx, audit_logs, breaker, background_tasks>>

InitCampaign ==
    /\ vc = VCIdle
    /\ tx = TxIdle
    /\ kargo_client = "mock"
    /\ reqs = [r \in Requests |-> ReqIdle]
    /\ store = {}
    /\ dsp = <<>>
    /\ api = ApiIdle
    /\ campaigns \in {<<>>} \cup {[c \in {0} |-> campaign_db] : campaign_db \in LegacyCampaigns}
    /\ associations = {}
    /\ audit_logs = <<>>
    /\ breaker = CircuitBreaker(5, 60)
    /\ background_tasks = <<>>

\* the operations on campaigns, and one call of process_creative that fills
\* the table of processed creatives
NextCampaign ==
    \/ SubmitNext(1)
    \/ Proceed(1)
    \/ \E creatives \in CreativeListInputs : CreateCampaign(creatives)
    \/ \E campaign_id \in CampaignIdInputs, status \in StatusInputs : UpdateCampaign(campaign_id, status)
    \/ \E campaign_id \in CampaignIdInputs : ActivateCampaign(campaign_id)
    \/ \E campaign_id \in CampaignIdInputs : PauseCampaign(campaign_id)
    \/ \E campaign_id \in CampaignIdInputs : DeleteCampaign(campaign_id)
    \/ \E campaign_id \in CampaignIdInputs, creative_ids \in CreativeListInputs : AddCreativesToCampaign(campaign_id, creative_ids)
    \/ ApiReturn

SpecCampaign == InitCampaign /\ [][NextCampaign]_vars

(***************************************************************************)
(* POST /upload/amazon-dsp and the background task it schedules.  The task *)
(* runs after the response, so other requests can come in between; api     *)
(* holds what the task returns.                                            *)
(***************************************************************************)
\* the creative_ids of a request
UploadIdInputs == SeqUpTo(CreativeIds, MaxIds)

\* upload_creatives_to_amazon: the rows must exist and be ready, then
\* background_tasks.add_task(batch_upload_to_amazon, creative_ids, advertiser_id)
UploadCreativesToAmazon(creative_ids) ==
    /\ api.op = None
    /\ background_tasks = <<>>
    /\ Len(dsp) + Len(creative_ids) <= MaxUploads
    /\ LET creatives == {row \in store : row.creative_id \in Range(creative_ids)}
       IN  IF Cardinality(creatives) # Len(creative_ids)
           THEN /\ api' = Raises("upload_creatives_to_amazon", creative_ids, "HTTPException(404)")
                /\ UNCHANGED background_tasks
           ELSE IF \E c \in creatives : ~ c.amazon_dsp_ready
           THEN /\ api' = Raises("upload_creatives_to_amazon", creative_ids, "HTTPException(400)")
                /\ UNCHANGED background_tasks
           ELSE /\ api' = Returns("upload_creatives_to_amazon", creative_ids, "scheduled")
                /\ background_tasks' = Append(background_tasks, creative_ids)
    /\ UNCHANGED <<kargo_client, reqs, store, dsp, vc, tx, campaigns, associations, audit_logs, breaker>>

\* the entries of results["uploaded"] and results["failed"]
Uploaded(creative, upload_response) ==
    [creative_id |-> creative.creative_id, amazon_creative_id |-> upload_response.creative_id,
     status |-> upload_response.status]

Failed(creative_id, error) == [creative_id |-> creative_id, error |-> error]

\* batch_upload_to_amazon, lines 44-98, for the rows `creatives` in the order
\* of the SELECT and after n uploads: the results, the updated rows and the
\* responses of the DSP
batch_upload_to_amazon(creative_ids, creatives, n) ==
    LET is_ready(creative) == creative.amazon_dsp_ready
        not_ready(creative) == ~ creative.amazon_dsp_ready
        upload_requests == SelectSeq(creatives, is_ready)
        skipped == SelectSeq(creatives, not_ready)
        upload_results == batch_upload_creatives(upload_requests, 1, n)
        zipped == 1 .. Min({Len(upload_requests), Len(upload_results)})
    IN  [uploaded |-> [i \in zipped |-> Uploaded(upload_requests[i], upload_results[i])],
         failed |-> [i \in 1 .. Len(skipped) |->
                        Failed(skipped[i].creative_id, "Creative not ready for Amazon DSP")],
         total |-> Len(creative_ids),
         rows |-> {set_upload_result(upload_requests[i], upload_results[i]) : i \in zipped},
         responses |-> upload_results]

\* the scheduled batch_upload_to_amazon(creative_ids, advertiser_id) runs
RunBatchUploadToAmazon ==
    /\ api.op = None
    /\ background_tasks # <<>>
    /\ LET creative_ids == Head(background_tasks)
       IN  \E creatives \in Orderings({row \in store : row.creative_id \in Range(creative_ids)}) :
              LET done == batch_upload_to_amazon(creative_ids, creatives, Len(dsp))
              IN  /\ dsp' = dsp \o done.responses
                  /\ store' = {row \in store :
                                  row.creative_id \notin {u.creative_id : u \in Range(done.uploaded)}}
                                \cup done.rows
                  /\ api' = Returns("batch_upload_to_amazon", creative_ids,
                                    [uploaded |-> done.uploaded, failed |-> done.failed,
                                     total |-> done.total])
    /\ background_tasks' = Tail(background_tasks)
    /\ UNCHANGED <<kargo_client, reqs, vc, tx, campaigns, associations, audit_logs, breaker>>

NextBatch ==
    \/ \E r \in Requests : SubmitNext(r)
    \/ \E r \in Requests : Proceed(r)
    \/ \E creative_id \in CreativeIds : DeleteProcessedCreative(creative_id)
    \/ \E creative_ids \in UploadIdInputs : UploadCreativesToAmazon(creative_ids)
    \/ RunBatchUploadToAmazon
    \/ ApiReturn

SpecBatch == Init /\ [][NextBatch]_vars

(***************************************************************************)
(* A CircuitBreaker around a function.  Calls run concurrently: a call     *)
(* enters the wrapper, awaits the function, and the function returns or    *)
(* raises later.                                                           *)
(***************************************************************************)
MaxThreshold == 2    \* largest failure_threshold
MaxRecovery == 2     \* largest recovery_timeout, in ticks of the clock
MaxTime == 3         \* last reading of the clock

\* CircuitBreaker._should_attempt_reset
should_attempt_reset(b) ==
    IF b.last_failure_time = <<>> THEN TRUE
    ELSE b.time - b.last_failure_time[1] >= b.recovery_timeout

\* _on_success that closes the breaker and keeps the count
on_success_keeps_count(b) == [b EXCEPT !.state = "closed"]

\* CircuitBreaker._on_success
on_success(b) == [b EXCEPT !.failure_count = 0, !.state = "closed"]

\* CircuitBreaker._on_failure
on_failure(b) ==
    [b EXCEPT !.failure_count = @ + 1,
              !.last_failure_time = <<b.time>>,
              !.state = IF b.failure_count + 1 >= b.failure_threshold THEN "open" ELSE @]

\* time passes
BreakerTick ==
    /\ breaker.time < MaxTime
    /\ breaker' = [breaker EXCEPT !.time = @ + 1]
    /\ UNCHANGED <<vc, tx, kargo_client, reqs, store, dsp, api, campaigns, associations, audit_logs, background_tasks>>

\* wrapper, lines 186-190: a call is rejected, or goes on to await func
BreakerCall ==
    /\ breaker.calls < MaxCalls
    /\ breaker' =
          IF breaker.state = "open" /\ ~ should_attempt_reset(breaker)
          THEN [breaker EXCEPT !.calls = @ + 1, !.last = "rejected"]
          ELSE [breaker EXCEPT !.calls = @ + 1, !.running = @ + 1, !.last = "admitted",
                               !.state = IF @ = "open" THEN "half-open" ELSE @]
    /\ UNCHANGED <<vc, tx, kargo_client, reqs, store, dsp, api, campaigns, associations, audit_logs, background_tasks>>

\* wrapper, lines 192-195: func has returned
BreakerFuncReturns ==
    /\ breaker.running > 0
    /\ breaker' = [on_success(breaker) EXCEPT !.running = @ - 1, !.last = "returned"]
    /\ UNCHANGED <<vc, tx, kargo_client, reqs, store, dsp, api, campaigns, associations, audit_logs, background_tasks>>

\* wrapper, lines 196-198: func has raised, an instance of expected_exception
\* or not
BreakerFuncRaises(expected) ==
    /\ breaker.running > 0
    /\ breaker' = IF expected
                  THEN [on_failure(breaker) EXCEPT !.running = @ - 1, !.last = "raised"]
                  ELSE [breaker EXCEPT !.running = @ - 1, !.last = "raised"]
    /\ UNCHANGED <<vc, tx, kargo_client, reqs, store, dsp, api, campaigns, associations, audit_logs, background_tasks>>

InitBreaker ==
    /\ vc = VCIdle
    /\ tx = TxIdle
    /\ kargo_client = "mock"
    /\ reqs = <<>>
    /\ store = {}
    /\ dsp = <<>>
    /\ api = ApiIdle
    /\ campaigns = <<>>
    /\ associations = {}
    /\ audit_logs = <<>>
    /\ background_tasks = <<>>
    /\ \E failure_threshold \in 1 .. MaxThreshold, recovery_timeout \in 1 .. MaxRecovery :
          breaker = CircuitBreaker(failure_threshold, recovery_timeout)

NextBreaker ==
    \/ BreakerTick
    \/ BreakerCall
    \/ BreakerFuncReturns
    \/ \E expected \in BOOLEAN : BreakerFuncRaises(expected)

SpecBreaker == InitBreaker /\ [][NextBreaker]_vars

(***************************************************************************)
(* CreativeProcessor._transform_snippet called on its own with a Phase 1   *)
(* configuration and markup a provider can serve: IAS tags of the shapes   *)
(* the transformer or the validator knows.                                 *)
(***************************************************************************)
StripFragments == {
    <<T_SCRIPT, T_SP, W("ias"), T_GT>>, <<T_ENDSCRIPT, T_GT>>,
    <<W("ias"), W(".tracking")>>,
    <<T_IMG, T_SP, T_FW, T_ADSAFE, T_COM, T_GT>>, <<T_TXT>> }

StripMarkupInputs == {Concat(fs) : fs \in SeqUpTo(StripFragments, MaxFrags)}

StripConfigInputs == {
    ConfigArgs(RUNWAY, DIM_320x50, URL_12345, <<>>, FALSE, TRUE, VC_PHASE_1),
    ConfigArgs(INSTREAM_VIDEO, DIM_320x50, URL_12345, <<15>>, FALSE, TRUE, VC_PHASE_1) }

\* process_creative calls _transform_snippet(snippet_code, config)
TxCallTransformSnippet ==
    /\ tx.state = "idle"
    /\ \E snippet_code \in StripMarkupInputs, config \in StripConfigInputs :
          tx' = [tx EXCEPT !.state = "called", !.fn = "_transform_snippet",
                           !.input = [snippet_code |-> snippet_code, config |-> config]]
    /\ UNCHANGED <<vc, pvars>>

TxReturnTransformSnippet ==
    /\ tx.state = "called"
    /\ tx.fn = "_transform_snippet"
    /\ tx' = [tx EXCEPT !.state = "returned",
                        !.result = transform_snippet(tx.input.snippet_code, tx.input.config)]
    /\ UNCHANGED <<vc, pvars>>

NextStrip ==
    \/ TxCallTransformSnippet
    \/ TxReturnTransformSnippet

SpecStrip == InitMacro /\ [][NextStrip]_vars

(***************************************************************************)
(* A function wrapped by retry_async(max_attempts=n), called once.  The    *)
(* wrapper awaits the function, then returns, raises or sleeps and goes    *)
(* round the loop again.                                                   *)
(***************************************************************************)
MaxAttempts == 3     \* largest max_attempts of a wrapper

\* an exception that is neither in TRANSIENT_EXCEPTIONS nor a RetryableHTTPError
OtherError == [kind |-> "other", code |-> <<>>, status |-> 0]

\* what one invocation of the wrapped function can produce
FuncOutcomes ==
    {Ok(<<>>), Transient, OtherError}
        \cup {HttpError(status) : status \in RETRIABLE_STATUS_CODES \cup {400, 404}}

RetryIdle ==
    [state |-> "idle", fn |-> "retry_async", input |-> 0,
     result |-> [invocations |-> <<>>, outcome |-> <<>>]]

\* a caller invokes the wrapper
RetryCall ==
    /\ tx.state = "idle"
    /\ \E max_attempts \in 0 .. MaxAttempts :
          tx' = [tx EXCEPT !.state = "running", !.input = max_attempts]
    /\ UNCHANGED <<vc, pvars>>

\* one round of `for attempt in range(max_attempts)`, or the end of the loop
RetryAttempt ==
    /\ tx.state = "running"
    /\ LET attempt == Len(tx.result.invocations)
       IN  IF attempt >= tx.input
           THEN tx' = [tx EXCEPT !.state = "returned"]
           ELSE \E o \in FuncOutcomes :
                  tx' = [tx EXCEPT
                           !.result.invocations = Append(@, o),
                           !.result.outcome =
                               IF o.kind # "ok" /\ retry_async(o, attempt + 1, tx.input)
                               THEN <<>> ELSE <<o>>,
                           !.state =
                               IF o.kind = "ok" THEN "returned"
                               ELSE IF retry_async(o, attempt + 1, tx.input) THEN "running"
                               ELSE "raised"]
    /\ UNCHANGED <<vc, pvars>>

InitRetry ==
    /\ vc = VCIdle
    /\ tx = RetryIdle
    /\ PipelineIdle

NextRetry ==
    \/ RetryCall
    \/ RetryAttempt

\* the wrapped function and asyncio.sleep return
SpecRetry == InitRetry /\ [][NextRetry]_vars /\ WF_vars(RetryAttempt)




(***************************************************************************)
(* Notions the claims about process_creative use.                          *)
(***************************************************************************)
\* the stages of a request, in the order of process_creative
StageOrder == <<"received", "validated", "fetched", "transformed", "revalidated", "persisted">>

IsPrefix(s, t) == Len(s) <= Len(t) /\ SubSeq(t, 1, Len(s)) = s

\* the rows a request added to the store
RowsOf(r) == {row \in store : row.request = r}

\* process_creative has returned with an error, or was never entered
\* because CreativeConfig(...) raised
Errored(r) == reqs[r].state \in {"failed", "rejected"}

\* process_creative has built the ProcessedCreative
Built(r) == reqs[r].state \in {"flushing", "done"}

\* the inputs with a configuration error: a URL without scheme and host or
\* of another host, dimensions that are not WxH or not positive
InvalidUrls == {URL_INVALID_DOMAIN, URL_NO_SCHEME}
MalformedDimensions == {DIM_320, DIM_3x2x1}
NonPositiveDimensions == {DIM_0x50, DIM_320xMINUS5}

HasConfigError(config) ==
    \/ config.snippet_url \in InvalidUrls
    \/ config.dimensions \in MalformedDimensions \cup NonPositiveDimensions

(***************************************************************************)
(* C1: there is no partial-success creative: whenever process_creative     *)
(* has ended with an error (configuration validation, fetch not-found or   *)
(* transport failure, transformation or persistence failure), the store    *)
(* holds no record created by that request.                                *)
(***************************************************************************)
C1_NoPartialSuccess ==
    \A r \in Requests : Errored(r) => RowsOf(r) = {}

\* a request that failed at the last stage, persistence, after its
\* creative was built
C1_Witness ==
    /\ reqs[1].state = "failed"
    /\ reqs[1].error = "OperationalError"
    /\ reqs[1].trace = SubSeq(StageOrder, 1, 5)
    /\ RowsOf(1) = {}

(***************************************************************************)
(* C2: a configuration error (a source URL that is not a well-formed       *)
(* snippet-provider URL, dimensions that are malformed or not positive) is *)
(* rejected before any fetch: for such a request get_snippet is never      *)
(* called, no body of it runs, the request never gets past validation and  *)
(* no record is persisted.                                                 *)
(***************************************************************************)
C2_RejectedBeforeFetch ==
    \A r \in Requests :
        (reqs[r].state # "idle" /\ HasConfigError(reqs[r].config))
        => /\ reqs[r].fetches = 0
           /\ reqs[r].attempts = 0
           /\ reqs[r].state \in {"received", "failed", "rejected"}
           /\ "validated" \notin Range(reqs[r].trace)
           /\ RowsOf(r) = {}

\* a request with a URL of another host that _validate_config has refused
C2_Witness ==
    /\ reqs[1].state = "failed"
    /\ reqs[1].error = "ValueError"
    /\ reqs[1].config.snippet_url = URL_INVALID_DOMAIN
    /\ reqs[1].fetches = 0

(***************************************************************************)
(* C3: a successful request passes through received, validated, fetched,   *)
(* transformed, revalidated, persisted in that order, each once: the       *)
(* stages completed so far are always a prefix of that order, the fetch    *)
(* happens only after validation succeeded, the warnings of the            *)
(* re-validation are those of the VAST-structure and phase-consistency     *)
(* validators on the fully wrapped markup that is persisted, and the       *)
(* record is persisted after re-validation, exactly once.                  *)
(***************************************************************************)
Revalidation(processed_code, config) ==
    (IF IsVideo(config.format) THEN validate_vast_structure(processed_code) ELSE <<>>)
    \o validate_phase_configuration(config.viewability_config.phase,
                                    config.viewability_config.vendors, processed_code)

C3_StageOrder ==
    \A r \in Requests :
        /\ IsPrefix(reqs[r].trace, StageOrder)
        /\ reqs[r].fetches > 0 => "validated" \in Range(reqs[r].trace)
        /\ Built(r) =>
              reqs[r].pc.processing_metadata.warnings
                  = Revalidation(reqs[r].pc.processed_code, reqs[r].config)
        /\ RowsOf(r) # {} =>
              /\ reqs[r].state = "done"
              /\ Cardinality(RowsOf(r)) = 1
              /\ \A row \in RowsOf(r) : row.processed_code = reqs[r].pc.processed_code
        /\ reqs[r].state = "done" =>
              /\ reqs[r].trace = StageOrder
              /\ Cardinality(RowsOf(r)) = 1

\* a video request that succeeded: its VAST document was re-validated
C3_Witness ==
    /\ reqs[1].state = "done"
    /\ IsVideo(reqs[1].config.format)
    /\ reqs[1].trace = StageOrder
    /\ Cardinality(RowsOf(1)) = 1

C5_SizeMonotonicity ==
    \A r \in Requests :
        reqs[r].state = "done" =>
            reqs[r].pc.processing_metadata.processed_snippet_size
                >= reqs[r].pc.processing_metadata.original_snippet_size

(***************************************************************************)
(* C6: the wrapper is a function of (format, phase) only and exactly one   *)
(* wrapper runs per request: runway gets the display wrap of its phase,    *)
(* instream_video and enhanced_preroll the VAST wrap of their phase; a     *)
(* display format never gets a VAST wrap and a video format never gets a   *)
(* display wrap, its processed code is a VAST document.                    *)
(***************************************************************************)
ExpectedWrapper(format, phase) ==
    IF format = RUNWAY /\ phase = PHASE_1 THEN "wrap_display_html5_phase1"
    ELSE IF format = RUNWAY /\ phase = PHASE_2 THEN "wrap_display_html5_phase2"
    ELSE IF phase = PHASE_1 THEN "wrap_vast_phase1"
    ELSE "wrap_vast_phase2"

C6_WrapperDispatch ==
    \A r \in Requests :
        Built(r) =>
            LET config == reqs[r].config
                wrapper == ExpectedWrapper(config.format, config.viewability_config.phase)
            IN  /\ reqs[r].wrappers = <<wrapper>>
                /\ IsVideo(config.format) => HasWord(reqs[r].pc.processed_code, <<"<VAST">>)
                /\ reqs[r].pc.processing_metadata.tags_added
                       [Len(reqs[r].pc.processing_metadata.tags_added)]
                     = (IF IsVideo(config.format) THEN "vast_wrapper"
                        ELSE "amazon_dsp_wrapper")

\* a phase-2 display request and its display phase-2 wrap
C6_Witness ==
    /\ reqs[1].state = "done"
    /\ reqs[1].config.format = RUNWAY
    /\ reqs[1].config.viewability_config.phase = PHASE_2
    /\ reqs[1].wrappers = <<"wrap_display_html5_phase2">>

(***************************************************************************)
(* C7: the DSP creative type has a single source of truth: for every       *)
(* stored creative, the creative type in any upload request built for it   *)
(* (by upload_to_amazon_dsp or by batch_upload_to_amazon) equals the       *)
(* creative_type stored on it, which is CUSTOM_HTML for the display format *)
(* and VAST_3_0 for every video format.                                    *)
(***************************************************************************)
C7_SingleSourceOfTruth ==
    /\ \A row \in store :
          row.creative_type = (IF row.format = RUNWAY THEN "CUSTOM_HTML" ELSE "VAST_3_0")
    /\ \A i \in DOMAIN dsp :
          \A row \in store :
              row.creative_id = dsp[i].source => dsp[i].format = row.creative_type

(***************************************************************************)
(* C8: constructing a ViewabilityConfig raises (no object is produced)     *)
(* whenever phase is PHASE_1 and the vendors contain IAS, and whenever     *)
(* phase is PHASE_2 and the vendors have fewer than two entries.           *)
(***************************************************************************)
C8_InvariantRejection ==
    (/\ vc.state \in {"constructed", "raised"}
     /\ \/ vc.phase = PHASE_1 /\ \E i \in 1..Len(vc.vendors) : vc.vendors[i] = IAS
        \/ vc.phase = PHASE_2 /\ Len(vc.vendors) \in {0, 1})
    => vc.state = "raised" /\ "vendors" \in vc.errors

C8_Witness ==
    /\ vc.state = "raised"
    /\ vc.phase = PHASE_2
    /\ vc.vendors = <<DOUBLE_VERIFY>>
    /\ vc.method # None
    /\ vc.errors = {"vendors"}

(***************************************************************************)
(* C9: every ViewabilityConfig that is successfully constructed with phase *)
(* PHASE_2 has both IAS and DoubleVerify among its vendors.                *)
(***************************************************************************)
C9_Phase2HasBothVendors ==
    (vc.state = "constructed" /\ vc.phase = PHASE_2)
    => (IAS \in Range(vc.vendors) /\ DOUBLE_VERIFY \in Range(vc.vendors))

(***************************************************************************)
(* C10: tag-removal completeness.  For any markup, remove_ias_tags returns *)
(* a cleaned string that contains no IAS (adsafeprotected) domain          *)
(* reference, and a removed-tag list with at least as many entries as      *)
(* there are distinct IAS pattern matches in the input (a match that lies  *)
(* inside another match is the same tag and is counted once).              *)
(***************************************************************************)
IASMatchSpans(s) ==
    UNION {Range(Scan(IAS_PATTERNS[p], s, 1)) : p \in 1..Len(IAS_PATTERNS)}

DistinctIASMatches(s) ==
    {a \in IASMatchSpans(s) :
        ~ \E b \in IASMatchSpans(s) : b # a /\ b.from <= a.from /\ a.to <= b.to}

NoIASReference(s) == \A i \in 1..Len(s) : s[i].k # "adsafeprotected"

C10_NoReferenceLeft ==
    (tx.state = "returned" /\ tx.fn = "remove_ias_tags")
    => NoIASReference(tx.result.cleaned_code)

C10_RemovedCount ==
    (tx.state = "returned" /\ tx.fn = "remove_ias_tags")
    => Len(tx.result.removed_tags) >= Cardinality(DistinctIASMatches(tx.input))

C10_TagRemovalCompleteness == C10_NoReferenceLeft /\ C10_RemovedCount

(***************************************************************************)
(* C11: every artifact process_creative produces for a video format        *)
(* (instream_video or enhanced_preroll), in either phase and with or       *)
(* without branded canvas, contains a VAST root, an Ad, a Creative, a      *)
(* TrackingEvents block and both a start and a complete tracking event,    *)
(* and its metadata holds no warning of the VAST-structure validation.     *)
(***************************************************************************)
VastWarnings == {
    "Missing VAST root element", "Missing Ad element", "Missing Creative element",
    "Missing TrackingEvents element", "Missing required tracking event: start",
    "Missing required tracking event: complete" }

C11_VastCompleteness ==
    \A r \in Requests :
        (Built(r) /\ IsVideo(reqs[r].config.format)) =>
            LET code == reqs[r].pc.processed_code
                warnings == reqs[r].pc.processing_metadata.warnings
            IN  /\ HasWord(code, <<"<VAST">>)
                /\ HasWord(code, <<"<Ad", ">">>) \/ HasWord(code, <<"<Ad", " ">>)
                /\ HasWord(code, <<"<Creative", ">">>) \/ HasWord(code, <<"<Creative", " ">>)
                /\ HasWord(code, <<"<TrackingEvents", ">">>)
                /\ HasWord(code, <<"event=", "\"", "start", "\"">>)
                /\ HasWord(code, <<"event=", "\"", "complete", "\"">>)
                /\ \A i \in 1 .. Len(warnings) : warnings[i].text \notin VastWarnings

\* a phase-2 instream video with the branded canvas, processed and stored
C11_Witness ==
    /\ reqs[1].state = "done"
    /\ reqs[1].config.format = INSTREAM_VIDEO
    /\ reqs[1].config.viewability_config.phase = PHASE_2
    /\ reqs[1].config.branded_canvas
    /\ reqs[1].wrappers = <<"wrap_vast_phase2">>

(***************************************************************************)
(* C12: for every configured duration d >= 0 (seconds) of a video          *)
(* creative, the Duration element the VAST wraps emit is the HH:MM:SS      *)
(* rendering of d: three two-digit fields, minutes and seconds below 60,   *)
(* and hours*3600 + minutes*60 + seconds = d.                              *)
(***************************************************************************)
IsHHMMSS(text, d) ==
    LET fields == Split(text, ":")
    IN  /\ Len(fields) = 3
        /\ \A i \in 1 .. 3 :
              /\ Len(fields[i]) = 2
              /\ IsDigit(fields[i][1])
              /\ IsDigit(fields[i][2])
        /\ Int_(fields[2]) < 60
        /\ Int_(fields[3]) < 60
        /\ Int_(fields[1]) * 3600 + Int_(fields[2]) * 60 + Int_(fields[3]) = d

C12_DurationIsHHMMSS ==
    (/\ tx.state = "returned"
     /\ tx.fn \in WrapVastFunctions
     /\ tx.input.duration # <<>>)
    => /\ tx.result.raises = None
       /\ IsHHMMSS(tx.result.duration, tx.input.duration[1])

(***************************************************************************)
(* C13: processing a video-format creative whose config has no duration    *)
(* succeeds: once its snippet is fetched the VAST wrap does not fail, an   *)
(* artifact is produced, and the request can only fail in the persistence  *)
(* write.                                                                  *)
(***************************************************************************)
PersistenceErrors == {"IntegrityError", "OperationalError"}

C13_VideoWithoutDuration ==
    \A r \in Requests :
        (/\ reqs[r].state # "idle"
         /\ IsVideo(reqs[r].config.format)
         /\ reqs[r].config.duration = <<>>
         /\ "fetched" \in Range(reqs[r].trace))
        => \/ Built(r)
           \/ reqs[r].state = "failed" /\ reqs[r].error \in PersistenceErrors

(***************************************************************************)
(* C14: after any sequence of process_creative and                         *)
(* delete_processed_creative calls, get_processed_creative(id) returns the *)
(* record exactly when id was returned by a successful process_creative    *)
(* and has not been deleted since, and returns None without raising        *)
(* otherwise; delete_processed_creative(id) returns True exactly when the  *)
(* record existed and removes only that record, and returns False,         *)
(* leaving the store unchanged, for a missing or already deleted id.       *)
(***************************************************************************)
\* the calls of process_creative that returned creative_id and whose record
\* has not been deleted since
Live(creative_id) ==
    {r \in Requests : /\ reqs[r].state = "done"
                      /\ ~ reqs[r].deleted
                      /\ reqs[r].pc.creative_id = creative_id}

\* `record` is the creative process_creative returned
IsRecordOf(record, pc) ==
    /\ record.creative_id = pc.creative_id
    /\ record.name = pc.name
    /\ record.format = pc.format
    /\ record.original_snippet_url = pc.original_snippet_url
    /\ record.processed_code = pc.processed_code
    /\ record.amazon_dsp_ready = pc.amazon_dsp_ready
    /\ record.creative_type = pc.creative_type
    /\ record.viewability_config = pc.viewability_config
    /\ record.processing_metadata = pc.processing_metadata

C14_GetReturns ==
    api.op = "get_processed_creative"
    => /\ api.result.raises = None
       /\ IF Live(api.arg[1]) = {}
          THEN api.result.value = <<>>
          ELSE /\ Len(api.result.value) = 1
               /\ \A r \in Live(api.arg[1]) : IsRecordOf(api.result.value[1], reqs[r].pc)

C14_DeleteReturns ==
    (api.op = None /\ api'.op = "delete_processed_creative")
    => LET existed == \E row \in store : row.creative_id = api'.arg[1]
       IN  /\ api'.result.raises = None
           /\ api'.result.value = existed
           /\ store' = {row \in store : row.creative_id # api'.arg[1]}
           /\ existed => Cardinality(store') = Cardinality(store) - 1
           /\ ~ existed => store' = store

C14_GetAndDelete == [](C14_GetReturns) /\ [][C14_DeleteReturns]_vars

\* a lookup of a deleted creative, while another one is stored
C14_Witness ==
    /\ api.op = "get_processed_creative"
    /\ api.result.value = <<>>
    /\ \E r \in Requests : /\ reqs[r].state = "done"
                           /\ reqs[r].deleted
                           /\ reqs[r].pc.creative_id = api.arg[1]
    /\ store # {}

(***************************************************************************)
(* C15: list_processed_creatives(skip, limit) returns the stored creatives *)
(* in creation-time-descending order and the order is deterministic: for   *)
(* every unchanged store state, including states where several creatives   *)
(* share a creation timestamp, the pages (skip = k*limit, limit) for       *)
(* k = 0, 1, ... are disjoint and together contain every stored creative   *)
(* exactly once.                                                           *)
(***************************************************************************)
\* the results of the calls for the pages 0, 1, ... of `limit` creatives
Pagings(limit) ==
    LET last == Cardinality(store) \div limit
    IN  {paging \in [0 .. last -> UNION {list_processed_creatives(store, k * limit, limit) :
                                            k \in 0 .. last}] :
            \A k \in 0 .. last : paging[k] \in list_processed_creatives(store, k * limit, limit)}

RECURSIVE ConcatPages(_, _, _)
ConcatPages(paging, k, last) ==
    IF k > last THEN <<>> ELSE paging[k] \o ConcatPages(paging, k + 1, last)

C15_StablePagination ==
    \A limit \in LimitInputs :
        /\ \A skip \in SkipInputs :
              Cardinality(list_processed_creatives(store, skip, limit)) = 1
        /\ \A paging \in Pagings(limit) :
              LET listed == ConcatPages(paging, 0, Cardinality(store) \div limit)
              IN  /\ Len(listed) = Cardinality(store)
                  /\ \A row \in store :
                        Cardinality({i \in 1 .. Len(listed) :
                                        listed[i].creative_id = row.creative_id}) = 1
                  /\ \A i, j \in 1 .. Len(listed) :
                        i < j => listed[i].created_at >= listed[j].created_at

(***************************************************************************)
(* C16: bulk processing handles each config independently: for a batch in  *)
(* which some configs fail (invalid or unresolvable source URL) and the    *)
(* others are valid, every valid config yields one persisted artifact in   *)
(* the results, every failing config yields one per-item failure entry,    *)
(* successful + failed equals the batch size, and the batch as a whole is  *)
(* never aborted.                                                          *)
(***************************************************************************)
\* the source URL is of the provider's host and the provider has the snippet
Resolvable(config) ==
    /\ validate_snippet_url(config.snippet_url)
    /\ \E o \in MockOutcomes(config.snippet_url) : o.kind = "ok"

C16_BulkIndependence ==
    api.op = "process_creatives_bulk"
    => LET batch == api.arg
           response == api.result.value
           valid == {i \in 1 .. Len(batch) : Resolvable(batch[i])}
       IN  /\ api.result.raises = None
           /\ response.status_code = 200
           /\ response.total_processed = Len(batch)
           /\ response.successful = Cardinality(valid)
           /\ response.failed = Len(batch) - Cardinality(valid)

(***************************************************************************)
(* C17: a structural warning never blocks artifact creation and is always  *)
(* recorded: when the dimensions parse but are not in the allow-list for   *)
(* the format, when the VAST structure check finds gaps, or when the       *)
(* phase/vendor audit finds a mismatch, process_creative still succeeds    *)
(* and each such finding appears in the resulting                          *)
(* ProcessingMetadata.warnings.                                            *)
(***************************************************************************)
\* the dimensions parse and are not in the allow-list of the format
UnusualDimensions(config) ==
    LET v == validate_creative_format_dimensions(config.format, config.dimensions)
    IN  ~ v.raises /\ ~ v.value

DimensionWarnings == {"Unusual dimensions for format"}

C17_DimensionsNeverBlock ==
    \A r \in Requests :
        (reqs[r].state = "failed" /\ UnusualDimensions(reqs[r].config))
        => reqs[r].error # "ValidationError"

C17_FindingsRecorded ==
    \A r \in Requests :
        Built(r)
        => LET config == reqs[r].config
               code == reqs[r].pc.processed_code
               warnings == reqs[r].pc.processing_metadata.warnings
               audit == validate_phase_configuration(config.viewability_config.phase,
                                                     config.viewability_config.vendors, code)
               gaps == IF IsVideo(config.format) THEN validate_vast_structure(code) ELSE <<>>
           IN  /\ Range(audit) \subseteq Range(warnings)
               /\ Range(gaps) \subseteq Range(warnings)

C17_DimensionsRecorded ==
    \A r \in Requests :
        (Built(r) /\ UnusualDimensions(reqs[r].config))
        => \E i \in 1 .. Len(reqs[r].pc.processing_metadata.warnings) :
              reqs[r].pc.processing_metadata.warnings[i].text \in DimensionWarnings

C17_WarningsNeverBlockAndAreRecorded ==
    /\ C17_DimensionsNeverBlock
    /\ C17_FindingsRecorded
    /\ C17_DimensionsRecorded

(***************************************************************************)
(* C18: the processing metadata reflects exactly the transformations that  *)
(* ran: for every successfully processed creative, tags_added is, in this  *)
(* order, 'amazon_macros', then 'cache_buster' exactly when the config's   *)
(* cache_buster flag is set, then 'amazon_dsp_wrapper' for the display     *)
(* format or 'vast_wrapper' for a video format; tags_removed holds the IAS *)
(* matches stripped from the fetched markup and is empty whenever the      *)
(* phase is PHASE_2; and phase_applied equals the config's phase.          *)
(***************************************************************************)
C18_MetadataProvenance ==
    \A r \in Requests :
        Built(r)
        => LET config == reqs[r].config
               phase == config.viewability_config.phase
               metadata == reqs[r].pc.processing_metadata
           IN  /\ metadata.tags_added =
                     <<"amazon_macros">>
                     \o (IF config.cache_buster THEN <<"cache_buster">> ELSE <<>>)
                     \o (IF config.format = RUNWAY THEN <<"amazon_dsp_wrapper">>
                         ELSE <<"vast_wrapper">>)
               /\ phase = PHASE_2 => metadata.tags_removed = <<>>
               /\ \E o \in BodyOutcomes(kargo_client, config.snippet_url) :
                     /\ o.kind = "ok"
                     /\ metadata.original_snippet_size = Size(o.code)
                     /\ phase = PHASE_1
                        => metadata.tags_removed = remove_ias_tags(o.code).removed_tags
               /\ metadata.phase_applied = phase

\* a phase-1 display creative with the cache buster whose fetched markup
\* had IAS tags
C18_Witness ==
    /\ reqs[1].state = "done"
    /\ reqs[1].config.format = RUNWAY
    /\ reqs[1].config.cache_buster
    /\ reqs[1].config.viewability_config.phase = PHASE_1
    /\ reqs[1].pc.processing_metadata.tags_removed # <<>>
    /\ reqs[1].pc.processing_metadata.tags_added =
          <<"amazon_macros", "cache_buster", "amazon_dsp_wrapper">>

(***************************************************************************)
(* C19: a persisted creative is immutable except for its upload result:    *)
(* upload_to_amazon_dsp changes only the amazon_creative_id and            *)
(* upload_status of the uploaded creative (its name, format, processed     *)
(* code, creative type, viewability config and processing metadata, and    *)
(* every other stored creative, are unchanged); for an unknown creative id *)
(* it fails without calling the DSP and without changing the store; and no *)
(* operation other than upload and delete modifies a persisted creative.   *)
(***************************************************************************)
\* row `b` is row `a` with another upload result
SameButUploadResult(a, b) ==
    b = [a EXCEPT !.amazon_creative_id = b.amazon_creative_id,
                  !.upload_status = b.upload_status]

\* the DSP was called for the creative in this step
UploadedInStep(creative_id) ==
    \E i \in (Len(dsp) + 1) .. Len(dsp') : dsp'[i].source = creative_id

C19_UploadStep ==
    (api.op = None /\ api'.op = "upload_to_amazon_dsp")
    => LET creative_id == api'.arg[1]
       IN  IF \E row \in store : row.creative_id = creative_id
           THEN /\ \A row \in store : row.creative_id # creative_id => row \in store'
                /\ Cardinality(store') = Cardinality(store)
                /\ api'.result.raises = None
                   => /\ Len(dsp') = Len(dsp) + 1
                      /\ UploadedInStep(creative_id)
                      /\ \E row \in store' :
                            /\ row.creative_id = creative_id
                            /\ row.amazon_creative_id = api'.result.value
                /\ api'.result.raises # None => dsp' = dsp /\ store' = store
           ELSE /\ api'.result.raises = "ValueError"
                /\ dsp' = dsp
                /\ store' = store

C19_RowsStep ==
    \A row \in store :
        \/ row \in store'
        \/ /\ api'.op = "delete_processed_creative"
           /\ api'.arg[1] = row.creative_id
           /\ \A other \in store' : other.creative_id # row.creative_id
        \/ /\ UploadedInStep(row.creative_id)
           /\ \E other \in store' : SameButUploadResult(row, other)

C19_ImmutableButUploadResult == [][C19_UploadStep /\ C19_RowsStep]_vars

\* the upload of one of two stored creatives has returned
C19_Witness ==
    /\ api.op = "upload_to_amazon_dsp"
    /\ api.result.raises = None
    /\ \E a, b \in store :
          /\ a.creative_id = api.arg[1]
          /\ <<a.amazon_creative_id, a.upload_status>> = <<api.result.value, "APPROVED">>
          /\ b.creative_id # a.creative_id
          /\ <<b.amazon_creative_id, b.upload_status>> = <<<<>>, None>>

(***************************************************************************)
(* C20: concurrent process_creative calls do not interfere: for any        *)
(* interleaving of several calls, every call that succeeds persists        *)
(* exactly one record, the creative ids of the calls that succeed are      *)
(* pairwise distinct (uuid4 is any value of CreativeIds here, and the      *)
(* unique constraint fails the call that repeats a stored id), and each    *)
(* call's artifact and metadata (apart from timing values and the          *)
(* cache-buster token) equal what the same call produces when run alone.   *)
(***************************************************************************)
\* what process_creative produces for each configuration when it is the
\* only call: the processed code and the metadata
AloneWith(args) ==
    {[config |-> args, processed_code |-> t.processed_code, metadata |-> t.metadata] :
        t \in {transform_snippet(o.code, args) :
                 o \in {b \in MockOutcomes(args.snippet_url) : b.kind = "ok"}}}

Alone == UNION {AloneWith(args) : args \in ConfigInputs}

C21_TokensDistinct ==
    \A i, j \in 1 .. Len(tx.result) :
        i # j => tx.result[i].token # tx.result[j].token

(***************************************************************************)
(* C22: macro injection is idempotent:                                     *)
(* inject_amazon_macros(inject_amazon_macros(m)) = inject_amazon_macros(m) *)
(* for every markup m, the result contains none of the generic             *)
(* placeholders of the substitution table, and a markup that contains none *)
(* of them is returned unchanged.                                          *)
(***************************************************************************)
HasGenericPlaceholder(text) ==
    \E m \in 1 .. Len(AmazonMacroItems) : Contains(text, AmazonMacroItems[m][1])

C22_MacroInjectionIdempotent ==
    (tx.state = "returned" /\ tx.fn = "inject_amazon_macros")
    => /\ inject_amazon_macros_text(tx.result) = tx.result
       /\ ~ HasGenericPlaceholder(tx.result)
       /\ ~ HasGenericPlaceholder(tx.input) => tx.result = tx.input

\* a markup with a placeholder inside the braces of another and a GDPR
\* placeholder has been rewritten
C22_Witness ==
    /\ tx.state = "returned"
    /\ tx.fn = "inject_amazon_macros"
    /\ tx.input = <<"$", "{">> \o Generic(<<"CLICK_URL">>) \o <<"}">> \o Generic(<<"GDPR">>)
    /\ tx.result = <<"$", "{">> \o Amazon(<<"CLICK_URL">>) \o <<"}">> \o Amazon(<<"GDPR">>)


(***************************************************************************)
(* C23.  validate_phase_configuration never raises and returns exactly     *)
(* these warnings.  For PHASE_1: one if IAS is among the vendors, one if   *)
(* any IAS tag is detected in the markup, one if DoubleVerify is among the *)
(* vendors and no DV tag is detected.  For PHASE_2: one if IAS is not      *)
(* among the vendors, one if DoubleVerify is not among the vendors, one if *)
(* more than 2 IAS tags are detected.                                      *)
(***************************************************************************)
Texts(warnings) == [w \in 1..Len(warnings) |-> warnings[w].text]

C23_ExpectedTexts(phase, vendors, creative_code) ==
    LET ias == Len(detect_ias_tags(creative_code))
        dv == Len(detect_dv_tags(creative_code))
        One(cond, text) == IF cond THEN <<text>> ELSE <<>>
    IN  IF phase = PHASE_1
        THEN One(IAS \in Range(vendors), "Phase 1 should not include IAS vendor")
             \o One(ias > 0, "Phase 1 creative contains IAS tags that should be removed")
             \o One(DOUBLE_VERIFY \in Range(vendors) /\ dv = 0,
                    "Phase 1 configured for DV but no DV tags found in creative")
        ELSE One(IAS \notin Range(vendors),
                 "Phase 2 should include IAS vendor for S2S integration")
             \o One(DOUBLE_VERIFY \notin Range(vendors),
                    "Phase 2 should include DoubleVerify vendor")
             \o One(ias > 2, "Phase 2 creative has excessive IAS tags")

C23_PhaseWarnings ==
    (tx.state = "returned" /\ tx.fn = "validate_phase_configuration")
        => /\ tx.result \in Seq([text : STRING, n : Nat])
           /\ Texts(tx.result)
                = C23_ExpectedTexts(tx.input.phase, tx.input.vendors,
                                    tx.input.creative_code)

\* a Phase 2 audit of markup with exactly 2 IAS tags and one DV tag for the
\* vendors list [IAS]: the only warning is the missing DoubleVerify vendor
C23_Witness ==
    /\ tx.state = "returned"
    /\ tx.fn = "validate_phase_configuration"
    /\ tx.input.phase = PHASE_2
    /\ tx.input.vendors = <<IAS>>
    /\ Len(detect_ias_tags(tx.input.creative_code)) = 2
    /\ Len(detect_dv_tags(tx.input.creative_code)) = 1
    /\ Texts(tx.result) = <<"Phase 2 should include DoubleVerify vendor">>


(***************************************************************************)
(* C24.  delete_campaign on an active campaign fails, leaves the status    *)
(* unchanged and writes no audit entry; on an existing campaign in any     *)
(* other status it sets the status to deleted and keeps the row (a soft    *)
(* delete); on an unknown id it fails with the not-found error.            *)
(***************************************************************************)
C24_DeleteStep ==
    (api.op = None /\ api'.op = "delete_campaign")
        => LET campaign_id == api'.arg[1]
           IN  IF campaign_id \notin DOMAIN campaigns
               THEN /\ api'.result.raises = "Campaign not found"
                    /\ campaigns' = campaigns
                    /\ audit_logs' = audit_logs
               ELSE IF campaigns[campaign_id].status = "active"
               THEN /\ api'.result.raises \notin {None, "Campaign not found"}
                    /\ campaigns' = campaigns
                    /\ audit_logs' = audit_logs
               ELSE /\ api'.result.raises = None
                    /\ campaigns' = [campaigns EXCEPT ![campaign_id].status = "deleted"]

C24_DeleteCampaign == [][C24_DeleteStep]_vars

\* delete_campaign has refused an active campaign after it has deleted another
C24_Witness ==
    /\ api.op = "delete_campaign"
    /\ api.result.raises = "Cannot delete active campaign. Please pause first."
    /\ campaigns[api.arg[1]].status = "active"
    /\ \E c \in DOMAIN campaigns :
          /\ campaigns[c].status = "deleted"
          /\ AuditLogDB(c, "deleted") \in Range(audit_logs)


(***************************************************************************)
(* C25.  activate_campaign sets the status to active only if the campaign  *)
(* has an Amazon order id and at least one processed creative; when either *)
(* is missing it fails and leaves the status unchanged; activating an      *)
(* already active campaign changes nothing and writes no audit entry.      *)
(***************************************************************************)
C25_ActivateStep ==
    (api.op = None /\ api'.op = "activate_campaign" /\ api'.arg[1] \in DOMAIN campaigns)
        => LET campaign_id == api'.arg[1]
               campaign_db == campaigns[campaign_id]
               ready == /\ campaign_db.order_id # <<>>
                        /\ campaign_db.processed_creatives_count >= 1
           IN  IF campaign_db.status = "active"
               THEN /\ api'.result.raises = None
                    /\ campaigns' = campaigns
                    /\ audit_logs' = audit_logs
               ELSE IF ready
               THEN /\ api'.result.raises = None
                    /\ campaigns' = [campaigns EXCEPT ![campaign_id].status = "active"]
               ELSE /\ api'.result.raises # None
                    /\ campaigns' = campaigns

C25_ActivateCampaign == [][C25_ActivateStep]_vars

\* activate_campaign has refused a campaign without an order id after it has
\* activated one that has an order id and a processed creative
C25_Witness ==
    /\ api.op = "activate_campaign"
    /\ api.result.raises = "Campaign not synced with Amazon DSP"
    /\ campaigns[api.arg[1]].status = "draft"
    /\ \E c \in DOMAIN campaigns :
          /\ campaigns[c].status = "active"
          /\ campaigns[c].order_id # <<>>
          /\ campaigns[c].processed_creatives_count = 1
          /\ AuditLogDB(c, "activated") \in Range(audit_logs)


(***************************************************************************)
(* C28.  deleted is terminal: after delete_campaign has set the status of  *)
(* a campaign to deleted, no activate_campaign, pause_campaign,            *)
(* update_campaign or add_creatives_to_campaign changes the status again.  *)
(***************************************************************************)
C28_DeletedStep ==
    \A c \in DOMAIN campaigns :
        (campaigns[c].status = "deleted" /\ AuditLogDB(c, "deleted") \in Range(audit_logs))
            => campaigns'[c].status = "deleted"

C28_DeletedIsTerminal == [][C28_DeletedStep]_vars


(***************************************************************************)
(* C26.  A function wrapped by retry_async(max_attempts=n) is invoked at   *)
(* most n times and the wrapper always terminates.  It returns the first   *)
(* success without a further invocation.  An exception that is not         *)
(* transient, or a RetryableHTTPError whose status is not one of 429, 500, *)
(* 502, 503, 504 (404 for one), is re-raised by the invocation that raised *)
(* it, so after a single invocation when it is the first.  After n         *)
(* consecutive transient failures the last exception is re-raised.         *)
(***************************************************************************)
IsTransientFailure(o) ==
    \/ o.kind = "transient"
    \/ o.kind = "http" /\ o.status \in {429, 500, 502, 503, 504}

C26_Bounded ==
    LET invocations == tx.result.invocations
        n == Len(invocations)
    IN  /\ n <= tx.input
        /\ \A i \in 1 .. n :
              IF invocations[i].kind = "ok"
              THEN i = n /\ tx.state = "returned" /\ tx.result.outcome = <<invocations[i]>>
              ELSE IF ~ IsTransientFailure(invocations[i])
              THEN i = n /\ tx.state = "raised" /\ tx.result.outcome = <<invocations[i]>>
              ELSE i = tx.input
                      => tx.state = "raised" /\ tx.result.outcome = <<invocations[i]>>

C26_RetryAsync ==
    /\ [](tx.fn = "retry_async" => C26_Bounded)
    /\ (tx.state = "running") ~> (tx.state \in {"returned", "raised"})

\* the wrapper has re-raised the last of n >= 2 transient failures, the
\* first a transport failure and the last an HTTP 503
C26_Witness ==
    /\ tx.fn = "retry_async"
    /\ tx.state = "raised"
    /\ tx.input >= 2
    /\ Len(tx.result.invocations) = tx.input
    /\ tx.result.invocations[1] = Transient
    /\ tx.result.outcome = <<HttpError(503)>>


(***************************************************************************)
(* C27.  In batch_upload_to_amazon, also when some uploads fail, each      *)
(* creative is updated with the Amazon creative id and status that the DSP *)
(* returned for its own upload, never for another's, and every requested   *)
(* creative id ends up in exactly one of 'uploaded' and 'failed'.          *)
(***************************************************************************)
C27_BatchUploadResults ==
    api.op = "batch_upload_to_amazon"
        => LET uploaded == Range(api.result.value.uploaded)
               failed == Range(api.result.value.failed)
           IN  /\ \A u \in uploaded :
                     /\ \E d \in Range(dsp) :
                           /\ d.source = u.creative_id
                           /\ d.creative_id = u.amazon_creative_id
                           /\ d.status = u.status
                     /\ \A row \in store :
                           row.creative_id = u.creative_id
                               => /\ row.amazon_creative_id = <<u.amazon_creative_id>>
                                  /\ row.upload_status = u.status
               /\ \A creative_id \in Range(api.arg) :
                     (\E u \in uploaded : u.creative_id = creative_id)
                         # (\E f \in failed : f.creative_id = creative_id)


(***************************************************************************)
(* C29.  For a CircuitBreaker with threshold t: the state is open or       *)
(* half-open only if failure_count >= t; while it is open and the recovery *)
(* timeout has not elapsed, every call is rejected without invoking the    *)
(* function and without changing failure_count; a successful call leaves   *)
(* the breaker closed with failure_count 0.                                *)
(***************************************************************************)
C29_OpenOnlyAtThreshold ==
    breaker.state \in {"open", "half-open"}
        => breaker.failure_count >= breaker.failure_threshold

C29_CallStep ==
    (/\ breaker'.calls = breaker.calls + 1
     /\ breaker.state = "open"
     /\ breaker.time - breaker.last_failure_time[1] < breaker.recovery_timeout)
        => /\ breaker'.last = "rejected"
           /\ breaker'.running = breaker.running
           /\ breaker'.failure_count = breaker.failure_count
           /\ breaker'.state = "open"

C29_SuccessStep ==
    (breaker'.running = breaker.running - 1 /\ breaker'.last = "returned")
        => /\ breaker'.state = "closed"
           /\ breaker'.failure_count = 0

C29_CircuitBreaker ==
    /\ [](C29_OpenOnlyAtThreshold)
    /\ [][C29_CallStep /\ C29_SuccessStep]_vars

\* with threshold 2 and a recovery timeout of 2 ticks: two failures, one
\* tick, and the third call has been rejected
C29_Witness ==
    /\ breaker.failure_threshold = 2
    /\ breaker.recovery_timeout = 2
    /\ breaker.state = "open"
    /\ breaker.failure_count = 2
    /\ breaker.last = "rejected"
    /\ breaker.time = breaker.last_failure_time[1] + 1
    /\ breaker.running = 0


(***************************************************************************)
(* C30.  IAS stripping is complete with respect to the detector of the     *)
(* validator: for any fetched markup under PHASE_1, detect_ias_tags finds  *)
(* no IAS tag in the markup remove_ias_tags has cleaned, the Phase 1       *)
(* wrappers add none, and so a PHASE_1 artifact never carries the warning  *)
(* 'contains IAS tags that should be removed'.                             *)
(***************************************************************************)
C30_StrippingComplete ==
    (tx.state = "returned" /\ tx.fn = "_transform_snippet")
        => /\ detect_ias_tags(remove_ias_tags(tx.input.snippet_code).cleaned_code) = <<>>
           /\ tx.result.raises \/ detect_ias_tags(tx.result.processed_code) = <<>>
           /\ \A w \in Range(tx.result.metadata.warnings) :
                 w.text # "Phase 1 creative contains IAS tags that should be removed"

=============================================================================
